---------------------------- MODULE Spec2Model ----------------------------
(***************************************************************************)
(* Model of the compose core of plasmactl-model: the resolver             *)
(* (DownloadManager.recursiveDownload), the merge builder (Builder.build)  *)
(* and the path helpers they use.                                          *)
(*                                                                         *)
(* Strings are sequences of one-character strings, so that the string      *)
(* functions of the code (strings.HasPrefix, strings.Index,                *)
(* strings.Contains, filepath.Clean, filepath.Join) are modelled by what   *)
(* they do on characters.                                                  *)
(*                                                                         *)
(* The specifications, all over the same variables: Spec (install and      *)
(* merge), SpecCancel (RunInstall with the signal goroutine), SpecFetch    *)
(* (the download manager and the git authentication chain), SpecResolve    *)
(* (manifest lookup and resolution errors), SpecBaseline (the build of a   *)
(* working directory without dependencies), SpecRelease (model:release),   *)
(* SpecStrategy (the package walk callback on one entry), SpecResolveLive  *)
(* (SpecResolve with the fairness of the running command), SpecMode (the   *)
(* materialization loop with mode bits), SpecClean (a run over what an     *)
(* earlier run left) and SpecForms (the package forms on the manifest).    *)
(***************************************************************************)
EXTENDS Integers, Sequences, FiniteSets, TLC

(***************************************************************************)
(* Go string functions, on character sequences.                            *)
(***************************************************************************)
Sep == <<"/">>

\* strings.HasPrefix
HasPrefix(s, p) == Len(p) <= Len(s) /\ SubSeq(s, 1, Len(p)) = p

\* strings.HasSuffix
HasSuffix(s, p) == Len(p) <= Len(s) /\ SubSeq(s, Len(s) - Len(p) + 1, Len(s)) = p

\* s[from:] with a 0-based offset, as a Go slice expression
SliceFrom(s, from) == SubSeq(s, from + 1, Len(s))

\* s[:to] with a 0-based exclusive end, as a Go slice expression
SliceTo(s, to) == SubSeq(s, 1, to)

\* strings.Index: the 0-based offset of the first occurrence of sub in s, -1 if none
Index(s, sub) ==
    LET hits == { i \in 0..(Len(s) - Len(sub)) : SubSeq(s, i + 1, i + Len(sub)) = sub }
    IN  IF hits = {} THEN -1 ELSE CHOOSE i \in hits : \A k \in hits : i <= k

\* strings.Contains
Contains(s, sub) == Index(s, sub) # -1

\* strings.Split(s, "/"): the segments between separators
RECURSIVE Split(_)
Split(s) ==
    LET i == Index(s, Sep)
    IN  IF i = -1 THEN <<s>> ELSE <<SliceTo(s, i)>> \o Split(SliceFrom(s, i + 1))

\* strings.Join(segs, "/")
RECURSIVE JoinSegs(_)
JoinSegs(segs) ==
    IF Len(segs) = 0 THEN <<>>
    ELSE IF Len(segs) = 1 THEN segs[1]
    ELSE segs[1] \o Sep \o JoinSegs(Tail(segs))

Dot == <<".">>
DotDot == <<".", ".">>

\* the segment stack filepath.Clean keeps while it scans a path
RECURSIVE CleanSegs(_, _, _)
CleanSegs(segs, out, rooted) ==
    IF Len(segs) = 0 THEN out
    ELSE LET h == segs[1]
             t == Tail(segs)
         IN  IF h = <<>> \/ h = Dot THEN CleanSegs(t, out, rooted)
             ELSE IF h = DotDot
                  THEN IF Len(out) > 0 /\ out[Len(out)] # DotDot
                       THEN CleanSegs(t, SubSeq(out, 1, Len(out) - 1), rooted)
                       ELSE IF rooted THEN CleanSegs(t, out, rooted)
                       ELSE CleanSegs(t, Append(out, h), rooted)
             ELSE CleanSegs(t, Append(out, h), rooted)

\* filepath.Clean
Clean(path) ==
    IF path = <<>> THEN Dot
    ELSE LET rooted == HasPrefix(path, Sep)
             body   == JoinSegs(CleanSegs(Split(path), <<>>, rooted))
         IN  IF rooted THEN Sep \o body
             ELSE IF body = <<>> THEN Dot ELSE body

\* filepath.Join of two elements: empty elements are dropped, the rest joined and cleaned
Join2(a, b) ==
    IF a = <<>> /\ b = <<>> THEN <<>>
    ELSE IF a = <<>> THEN Clean(b)
    ELSE IF b = <<>> THEN Clean(a)
    ELSE Clean(a \o Sep \o b)

\* the path without its trailing separators, as filepath.Base strips them
RECURSIVE StripTrailingSep(_)
StripTrailingSep(path) ==
    IF Len(path) > 0 /\ path[Len(path)] = "/"
    THEN StripTrailingSep(SubSeq(path, 1, Len(path) - 1))
    ELSE path

\* filepath.Base
Base(path) ==
    IF path = <<>> THEN Dot
    ELSE LET p    == StripTrailingSep(path)
             segs == Split(p)
         IN  IF p = <<>> THEN Sep ELSE segs[Len(segs)]

\* filepath.Dir
Dir(path) ==
    LET i == CHOOSE k \in 0..Len(path) :
                 /\ k = 0 \/ path[k] = "/"
                 /\ \A m \in (k + 1)..Len(path) : path[m] # "/"
    IN  Clean(SliceTo(path, i))

(***************************************************************************)
(* Names the code gives a meaning to.                                      *)
(***************************************************************************)
\* model.ComposeFile, the manifest file name
composeFile == <<"c", "o", "m", "p", "o", "s", "e", ".", "y", "a", "m", "l">>

\* the reserved internal-state folder of excludedFolders
plasmaFolder == <<".", "p", "l", "a", "s", "m", "a">>

excludedFolders == { plasmaFolder }
excludedFiles == { composeFile }

gitPrefix == <<".", "g", "i", "t">>

\* DependencyRoot, the synthetic root node of the dependency graph
DependencyRoot == "root"

\* TargetLatest
TargetLatest == "latest"

srcName == <<"s", "r", "c">>
rolesName == <<"r", "o", "l", "e", "s">>
groupVarsName == <<"g", "r", "o", "u", "p", "_", "v", "a", "r", "s">>
variablesName == <<"v", "a", "r", "i", "a", "b", "l", "e", "s">>

layerNames ==
    { <<"p", "l", "a", "t", "f", "o", "r", "m">>,
      <<"i", "n", "t", "e", "r", "a", "c", "t", "i", "o", "n">>,
      <<"i", "n", "t", "e", "g", "r", "a", "t", "i", "o", "n">>,
      <<"c", "o", "g", "n", "i", "t", "i", "o", "n">>,
      <<"c", "o", "n", "v", "e", "r", "s", "a", "t", "i", "o", "n">>,
      <<"s", "t", "a", "b", "i", "l", "i", "z", "a", "t", "i", "o", "n">>,
      <<"f", "o", "u", "n", "d", "a", "t", "i", "o", "n">> }

\* the strategy names of the manifest
StrategyOverwriteLocal == "overwrite-local-file"
StrategyRemoveExtraLocal == "remove-extra-local-files"
StrategyIgnoreExtraPackage == "ignore-extra-package-files"
StrategyFilterPackage == "filter-package-files"

\* mergeStrategyType
undefinedStrategy == "undefinedStrategy"
overwriteLocalFile == "overwriteLocalFile"
removeExtraLocalFiles == "removeExtraLocalFiles"
ignoreExtraPackageFiles == "ignoreExtraPackageFiles"
filterPackageFiles == "filterPackageFiles"

\* mergeStrategyTarget
localStrategy == "localStrategy"
packageStrategy == "packageStrategy"

\* mergeConflictResolve
noConflict == "noConflict"
resolveToLocal == "resolveToLocal"
resolveToPackage == "resolveToPackage"

(***************************************************************************)
(* Directory trees.  A tree is a function from the paths below its root    *)
(* (relative, separator-joined) to the kind of the entry: "dir", "file"    *)
(* or "symlink".  The root itself is the path "." and is always a          *)
(* directory.                                                              *)
(***************************************************************************)
\* the proper ancestors of a relative path
Ancestors(path) ==
    { SliceTo(path, i - 1) : i \in { k \in 1..Len(path) : path[k] = "/" } }

\* the tree holding the given leaves (<<path, kind>> pairs) and their ancestor directories
MkTree(leaves) ==
    LET leafPaths == { l[1] : l \in leaves }
        dirs      == UNION { Ancestors(p) : p \in leafPaths } \ leafPaths
    IN  [ p \in leafPaths \cup dirs |->
            IF p \in leafPaths THEN (CHOOSE l \in leaves : l[1] = p)[2] ELSE "dir" ]

\* the byte value of the characters the model's names use
CharOrd(c) ==
    CASE c = " " -> 32
      [] c = "." -> 46
      [] c = "/" -> 47
      [] c = "_" -> 95
      [] OTHER   -> 96 + (CHOOSE i \in 1..26 :
                            <<"a", "b", "c", "d", "e", "f", "g", "h", "i", "j", "k", "l", "m",
                              "n", "o", "p", "q", "r", "s", "t", "u", "v", "w", "x", "y", "z">>[i] = c)

\* a < b for two file names, compared byte by byte as fs.ReadDir sorts them
RECURSIVE NameLess(_, _)
NameLess(a, b) ==
    IF Len(a) = 0 THEN Len(b) > 0
    ELSE IF Len(b) = 0 THEN FALSE
    ELSE IF a[1] # b[1] THEN CharOrd(a[1]) < CharOrd(b[1])
    ELSE NameLess(Tail(a), Tail(b))

\* fs.WalkDir visits p before q: a directory before its content, siblings by name
RECURSIVE SegsBefore(_, _)
SegsBefore(ps, qs) ==
    IF Len(ps) = 0 THEN Len(qs) > 0
    ELSE IF Len(qs) = 0 THEN FALSE
    ELSE IF ps[1] # qs[1] THEN NameLess(ps[1], qs[1])
    ELSE SegsBefore(Tail(ps), Tail(qs))

WalkBefore(p, q) == SegsBefore(Split(p), Split(q))

\* the paths of a set in the order fs.WalkDir visits them
RECURSIVE SortPaths(_)
SortPaths(S) ==
    IF S = {} THEN <<>>
    ELSE LET m == CHOOSE p \in S : \A q \in S \ {p} : WalkBefore(p, q)
         IN  <<m>> \o SortPaths(S \ {m})

\* fs.WalkDir(fsys, "."): the root first, then every path of the tree
WalkDir(tree) == <<Dot>> \o SortPaths(DOMAIN tree)

\* the kind of the entry the walk hands to its callback (d.Info().Mode() & os.ModeType)
KindAt(tree, path) == IF path = Dot THEN "dir" ELSE tree[path]

(***************************************************************************)
(* Merge strategies (builder.go).                                          *)
(***************************************************************************)
\* cleanStrategyPaths: every path cleaned and ended by exactly one separator
cleanStrategyPaths(paths) ==
    [ i \in 1..Len(paths) |->
        LET path == Clean(paths[i])
        IN  IF ~HasSuffix(path, Sep) THEN path \o Sep ELSE path ]

\* identifyStrategy: the type and the target of a strategy name
identifyStrategy(name) ==
    CASE name = StrategyOverwriteLocal     -> [s |-> overwriteLocalFile, t |-> packageStrategy]
      [] name = StrategyRemoveExtraLocal   -> [s |-> removeExtraLocalFiles, t |-> localStrategy]
      [] name = StrategyIgnoreExtraPackage -> [s |-> ignoreExtraPackageFiles, t |-> packageStrategy]
      [] name = StrategyFilterPackage      -> [s |-> filterPackageFiles, t |-> packageStrategy]
      [] OTHER                             -> [s |-> undefinedStrategy, t |-> packageStrategy]

\* the mergeStrategy values of one package's declared strategies, undefined ones skipped
RECURSIVE StrategiesOf(_)
StrategiesOf(items) ==
    IF Len(items) = 0 THEN <<>>
    ELSE LET id == identifyStrategy(items[1].Name)
         IN  IF id.s = undefinedStrategy THEN StrategiesOf(Tail(items))
             ELSE <<[s |-> id.s, t |-> id.t, paths |-> cleanStrategyPaths(items[1].Paths)]>>
                  \o StrategiesOf(Tail(items))

\* SelectSeq with the strategy target as the test
StrategiesWithTarget(strategies, target) ==
    LET Test(ms) == ms.t = target IN SelectSeq(strategies, Test)

\* retrieveStrategies: the local strategies of all packages, in package order, and the
\* package strategies by package name (a later package of the same name replaces an earlier)
RECURSIVE retrieveStrategies(_, _, _)
retrieveStrategies(pkgs, ls, ps) ==
    IF Len(pkgs) = 0 THEN [ls |-> ls, ps |-> ps]
    ELSE LET pkg == pkgs[1]
             all == StrategiesOf(pkg.Source.Strategies)
             own == StrategiesWithTarget(all, packageStrategy)
         IN  retrieveStrategies(
                 Tail(pkgs),
                 ls \o StrategiesWithTarget(all, localStrategy),
                 [ n \in DOMAIN ps \cup {pkg.Name} |-> IF n = pkg.Name THEN own ELSE ps[n] ])

\* ensureStrategyPrefixPath comparing the whole path with a strategy path
ensureStrategyPrefixPath_Exact(path, strategyPaths) ==
    \E i \in 1..Len(strategyPaths) : path = strategyPaths[i]

\* ensureStrategyPrefixPath
ensureStrategyPrefixPath(path, strategyPaths) ==
    \E i \in 1..Len(strategyPaths) : HasPrefix(path, strategyPaths[i])

\* ensureStrategyContainsPath
ensureStrategyContainsPath(path, strategyPaths) ==
    \E i \in 1..Len(strategyPaths) : Contains(strategyPaths[i], path)

(***************************************************************************)
(* Layout detection and destination paths (builder.go).                    *)
(***************************************************************************)
\* isLayerDirectory: the first segment of the path is a layer name
isLayerDirectory(path) ==
    LET segments == Split(Clean(path))
    IN  IF Len(segments) = 0 THEN FALSE ELSE segments[1] \in layerNames

\* hasModernLayout: the package root holds a directory src with a layer entry in it
hasModernLayout(tree) ==
    /\ srcName \in DOMAIN tree
    /\ tree[srcName] = "dir"
    /\ \E layerName \in layerNames : Join2(srcName, layerName) \in DOMAIN tree

\* stripRolesFromPath: the first /roles/ segment removed, else a leading roles/
stripRolesFromPath(path) ==
    LET rolesSegment == Sep \o rolesName \o Sep
        rolesPrefix  == rolesName \o Sep
        idx          == Index(path, rolesSegment)
    IN  IF idx # -1 THEN SliceTo(path, idx) \o Sep \o SliceFrom(path, idx + Len(rolesSegment))
        ELSE IF HasPrefix(path, rolesPrefix) THEN SliceFrom(path, Len(rolesPrefix))
        ELSE path

\* normalizeGroupVarsToVariables: the first /group_vars/ segment renamed, else a leading one
normalizeGroupVarsToVariables(path) ==
    LET groupVarsSegment == Sep \o groupVarsName \o Sep
        variablesSegment == Sep \o variablesName \o Sep
        groupVarsPrefix  == groupVarsName \o Sep
        variablesPrefix  == variablesName \o Sep
        idx              == Index(path, groupVarsSegment)
    IN  IF idx # -1
        THEN SliceTo(path, idx) \o variablesSegment \o SliceFrom(path, idx + Len(groupVarsSegment))
        ELSE IF HasPrefix(path, groupVarsPrefix)
        THEN variablesPrefix \o SliceFrom(path, Len(groupVarsPrefix))
        ELSE path

\* adjustDestinationPath testing the layer on the path as the package has it
adjustDestinationPath_LayerFirst(path, isModernLayout) ==
    LET p == normalizeGroupVarsToVariables(stripRolesFromPath(path))
    IN  IF isModernLayout THEN p
        ELSE IF isLayerDirectory(path) THEN Join2(srcName, p)
        ELSE p

\* adjustDestinationPath
adjustDestinationPath(path, isModernLayout) ==
    LET p == normalizeGroupVarsToVariables(stripRolesFromPath(path))
    IN  IF isModernLayout THEN p
        ELSE IF isLayerDirectory(p) THEN Join2(srcName, p)
        ELSE p

(***************************************************************************)
(* The entry collection: entriesTree is the ordered list of entries,       *)
(* entriesMap maps a destination path to the entry it points to.  Both     *)
(* hold pointers to the same fsEntry values in the code; a pointer is      *)
(* modelled by the position of the entry in entriesTree, which never       *)
(* changes once the entry is appended.                                     *)
(***************************************************************************)
\* m[k] = v, as a Go map assignment
MapPut(m, k, v) == [ x \in DOMAIN m \cup {k} |-> IF x = k THEN v ELSE m[x] ]

\* addEntries with the conflict resolved to the incoming entry: last writer wins
addEntries_LastWins(tree, map, entry, path) ==
    IF path \notin DOMAIN map
    THEN [tree |-> Append(tree, entry), map |-> MapPut(map, path, Len(tree) + 1),
          conflict |-> noConflict]
    ELSE [tree |-> [tree EXCEPT ![map[path]] = entry], map |-> map,
          conflict |-> resolveToPackage]

\* addEntries appending to the list before it looks at the map
addEntries_AppendAlways(tree, map, entry, path) ==
    IF path \notin DOMAIN map
    THEN [tree |-> Append(tree, entry), map |-> MapPut(map, path, Len(tree) + 1),
          conflict |-> noConflict]
    ELSE [tree |-> Append(tree, entry), map |-> map, conflict |-> resolveToLocal]

\* addEntries: first writer wins
addEntries(tree, map, entry, path) ==
    IF path \notin DOMAIN map
    THEN [tree |-> Append(tree, entry), map |-> MapPut(map, path, Len(tree) + 1),
          conflict |-> noConflict]
    ELSE [tree |-> tree, map |-> map, conflict |-> resolveToLocal]

\* the overwriteLocalFile case resolving a conflict to the entry the map already has
overwriteEntry_KeepLocal(tree, map, entry, path) ==
    IF path \notin DOMAIN map
    THEN [tree |-> Append(tree, entry), map |-> MapPut(map, path, Len(tree) + 1),
          conflict |-> noConflict]
    ELSE [tree |-> tree, map |-> map, conflict |-> resolveToLocal]

\* the overwriteLocalFile case once the path matched: the entry the map has for the path
\* takes the source and metadata of the incoming one, or the incoming one is added
overwriteEntry(tree, map, entry, path) ==
    IF path \notin DOMAIN map
    THEN [tree |-> Append(tree, entry), map |-> MapPut(map, path, Len(tree) + 1),
          conflict |-> noConflict]
    ELSE [tree |-> [tree EXCEPT ![map[path]] = entry], map |-> map,
          conflict |-> resolveToPackage]

\* addStrategyEntries with a filter-package-files that passes an entry it does not match
\* on to the strategies declared after it
RECURSIVE addStrategyEntries_FilterSkips(_, _, _, _, _)
addStrategyEntries_FilterSkips(strategies, tree, map, entry, path) ==
    IF Len(strategies) = 0 THEN addEntries(tree, map, entry, path)
    ELSE LET ms == strategies[1]
         IN  CASE ms.s = overwriteLocalFile ->
                    IF ~ensureStrategyPrefixPath(path, ms.paths)
                    THEN addStrategyEntries_FilterSkips(Tail(strategies), tree, map, entry, path)
                    ELSE overwriteEntry(tree, map, entry, path)
               [] ms.s = filterPackageFiles ->
                    IF ~(\/ ensureStrategyPrefixPath(path, ms.paths)
                         \/ entry.Entry = "dir" /\ ensureStrategyContainsPath(path, ms.paths))
                    THEN addStrategyEntries_FilterSkips(Tail(strategies), tree, map, entry, path)
                    ELSE IF path \notin DOMAIN map
                    THEN [tree |-> Append(tree, entry),
                          map |-> MapPut(map, path, Len(tree) + 1),
                          conflict |-> noConflict]
                    ELSE [tree |-> tree, map |-> map, conflict |-> noConflict]
               [] ms.s = ignoreExtraPackageFiles ->
                    IF ~ensureStrategyPrefixPath(path, ms.paths)
                    THEN addStrategyEntries_FilterSkips(Tail(strategies), tree, map, entry, path)
                    ELSE [tree |-> tree, map |-> map, conflict |-> noConflict]
               [] OTHER ->
                    [tree |-> tree, map |-> map, conflict |-> noConflict]

\* addStrategyEntries returning after the loop without the call of addEntries
RECURSIVE addStrategyEntries_NoDefault(_, _, _, _, _)
addStrategyEntries_NoDefault(strategies, tree, map, entry, path) ==
    IF Len(strategies) = 0 THEN [tree |-> tree, map |-> map, conflict |-> noConflict]
    ELSE LET ms == strategies[1]
         IN  CASE ms.s = overwriteLocalFile ->
                    IF ~ensureStrategyPrefixPath(path, ms.paths)
                    THEN addStrategyEntries_NoDefault(Tail(strategies), tree, map, entry, path)
                    ELSE overwriteEntry(tree, map, entry, path)
               [] ms.s = filterPackageFiles ->
                    IF /\ path \notin DOMAIN map
                       /\ \/ ensureStrategyPrefixPath(path, ms.paths)
                          \/ entry.Entry = "dir" /\ ensureStrategyContainsPath(path, ms.paths)
                    THEN [tree |-> Append(tree, entry),
                          map |-> MapPut(map, path, Len(tree) + 1),
                          conflict |-> noConflict]
                    ELSE [tree |-> tree, map |-> map, conflict |-> noConflict]
               [] ms.s = ignoreExtraPackageFiles ->
                    IF ~ensureStrategyPrefixPath(path, ms.paths)
                    THEN addStrategyEntries_NoDefault(Tail(strategies), tree, map, entry, path)
                    ELSE [tree |-> tree, map |-> map, conflict |-> noConflict]
               [] OTHER ->
                    [tree |-> tree, map |-> map, conflict |-> noConflict]

\* addStrategyEntries: the strategies in declaration order; the first one that does not
\* skip the entry decides, and with none left the entry is added by addEntries
RECURSIVE addStrategyEntries(_, _, _, _, _)
addStrategyEntries(strategies, tree, map, entry, path) ==
    IF Len(strategies) = 0 THEN addEntries(tree, map, entry, path)
    ELSE LET ms == strategies[1]
         IN  CASE ms.s = overwriteLocalFile ->
                    IF ~ensureStrategyPrefixPath(path, ms.paths)
                    THEN addStrategyEntries(Tail(strategies), tree, map, entry, path)
                    ELSE overwriteEntry(tree, map, entry, path)
               [] ms.s = filterPackageFiles ->
                    IF /\ path \notin DOMAIN map
                       /\ \/ ensureStrategyPrefixPath(path, ms.paths)
                          \/ entry.Entry = "dir" /\ ensureStrategyContainsPath(path, ms.paths)
                    THEN [tree |-> Append(tree, entry),
                          map |-> MapPut(map, path, Len(tree) + 1),
                          conflict |-> noConflict]
                    ELSE [tree |-> tree, map |-> map, conflict |-> noConflict]
               [] ms.s = ignoreExtraPackageFiles ->
                    IF ~ensureStrategyPrefixPath(path, ms.paths)
                    THEN addStrategyEntries(Tail(strategies), tree, map, entry, path)
                    ELSE [tree |-> tree, map |-> map, conflict |-> noConflict]
               [] OTHER ->
                    [tree |-> tree, map |-> map, conflict |-> noConflict]

(***************************************************************************)
(* Packages and the manifest (pkg/model/model.go).                         *)
(***************************************************************************)
\* Dependency.ToPackage
ToPackage(d, name) == [Name |-> name, Source |-> d.Source, Dependencies |-> <<>>]

\* Package.GetTarget: the ref, or "latest" when the ref is empty
GetTarget(pkg) == IF pkg.Source.Ref # "" THEN pkg.Source.Ref ELSE TargetLatest

\* getTargetsMap: the target by package name (a later package of the same name wins)
RECURSIVE getTargetsMap(_, _)
getTargetsMap(pkgs, targets) ==
    IF Len(pkgs) = 0 THEN targets
    ELSE getTargetsMap(Tail(pkgs), MapPut(targets, pkgs[1].Name, GetTarget(pkgs[1])))

(***************************************************************************)
(* The inputs of a run: what the remotes serve, the local baseline and     *)
(* the root manifest.  A fetched directory is a record of its tree and of  *)
(* the content of its manifest file (present is FALSE when it has none).   *)
(***************************************************************************)
cfgName == <<"c", "f", "g">>
secretsName == <<"s", "e", "c", "r", "e", "t", "s">>
generatedName == <<"g", "e", "n", "e", "r", "a", "t", "e", "d">>
subName == <<"s", "u", "b">>
platformName == <<"p", "l", "a", "t", "f", "o", "r", "m">>
aYaml == <<"a", ".", "y", "a", "m", "l">>
yYaml == <<"y", ".", "y", "a", "m", "l">>
gitignoreName == <<".", "g", "i", "t", "i", "g", "n", "o", "r", "e">>

\* a baseline with the manifest, the reserved folder, a nested file named as the manifest
\* and the directories the strategy examples name
BaseTreeFull ==
    MkTree({ <<composeFile, "file">>,
             <<JoinSegs(<<plasmaFolder, <<"m">>>>), "file">>,
             <<gitignoreName, "file">>,
             <<JoinSegs(<<cfgName, aYaml>>), "file">>,
             <<JoinSegs(<<secretsName, <<"k">>>>), "file">>,
             <<JoinSegs(<<generatedName, <<"g">>>>), "file">>,
             <<JoinSegs(<<subName, composeFile>>), "file">> })

\* a baseline with the manifest and one file the packages also supply
BaseTreeSmall ==
    MkTree({ <<composeFile, "file">>,
             <<JoinSegs(<<<<"x">>, yYaml>>), "file">> })

BaseTrees == { BaseTreeFull, BaseTreeSmall }

\* a legacy-layout package with a nested manifest: layers at its root
TreeLegacyA ==
    MkTree({ <<JoinSegs(<<gitPrefix, <<"h">>>>), "file">>,
             <<composeFile, "file">>,
             <<JoinSegs(<<<<"x">>, yYaml>>), "file">>,
             <<JoinSegs(<<secretsName, <<"k">>>>), "file">>,
             <<JoinSegs(<<platformName, rolesName, <<"r">>>>), "file">> })

\* a modern-layout package: layers below src/
TreeModernB ==
    MkTree({ <<JoinSegs(<<gitPrefix, <<"h">>>>), "file">>,
             <<JoinSegs(<<srcName, platformName, rolesName, <<"r">>>>), "file">>,
             <<JoinSegs(<<platformName, <<"q">>>>), "file">>,
             <<JoinSegs(<<<<"x">>, yYaml>>), "file">>,
             <<JoinSegs(<<cfgName, aYaml>>), "file">>,
             <<JoinSegs(<<secretsName, <<"k">>>>), "file">>,
             <<JoinSegs(<<generatedName, <<"g">>>>), "file">> })

\* a legacy-layout package with a leading roles/ directory and a symlink
TreeLegacyC ==
    MkTree({ <<JoinSegs(<<<<"x">>, yYaml>>), "file">>,
             <<JoinSegs(<<cfgName, aYaml>>), "file">>,
             <<JoinSegs(<<rolesName, platformName, <<"z">>>>), "file">>,
             <<<<"l">>, "symlink">> })

\* a legacy-layout package with group_vars directories, at its root and below a layer
TreeLegacyD ==
    MkTree({ <<JoinSegs(<<groupVarsName, <<"w">>>>), "file">>,
             <<JoinSegs(<<platformName, groupVarsName, <<"v">>>>), "file">> })

Dep(name, url, strategies) ==
    [Name |-> name, Source |-> [Type |-> "git", URL |-> url, Ref |-> "", Strategies |-> strategies]]

Strat(name, paths) == [Name |-> name, Paths |-> paths]

\* the manifest file of a directory: whether it is there, whether its YAML fails to parse,
\* the dependencies it declares
NoManifest == [present |-> FALSE, malformed |-> FALSE, Dependencies |-> <<>>]

Manifest(deps) == [present |-> TRUE, malformed |-> FALSE, Dependencies |-> deps]

Malformed == [present |-> TRUE, malformed |-> TRUE, Dependencies |-> <<>>]

\* a tree that holds only a manifest file
TreeManifestOnly == MkTree({ <<composeFile, "file">> })

\* the remotes no download succeeds from
Unreachable == {"ux"}

\* what each remote serves: "ue" a manifest with a dependency without URL between two
\* others, "um" a manifest that is no YAML, "un" a manifest naming an unreachable remote,
\* "up" and "uq" manifests where pkgq, a dependency of pkgp, depends on another pkgp,
\* "ur" and "us" manifests that name each other
Remote ==
    [ url \in {"ua", "ub", "uc", "ud", "ue", "um", "un", "up", "uq", "ur", "us"} |->
        CASE url = "ua" -> [tree |-> TreeLegacyA,
                            manifest |-> Manifest(<<Dep("pkgc", "uc", <<>>)>>)]
          [] url = "ub" -> [tree |-> TreeModernB, manifest |-> NoManifest]
          [] url = "uc" -> [tree |-> TreeLegacyC, manifest |-> NoManifest]
          [] url = "ud" -> [tree |-> TreeLegacyD, manifest |-> NoManifest]
          [] url = "ue" -> [tree |-> TreeManifestOnly,
                            manifest |-> Manifest(<<Dep("pkgc", "uc", <<>>),
                                                    Dep("pkgn", "", <<>>),
                                                    Dep("pkgb", "ub", <<>>)>>)]
          [] url = "um" -> [tree |-> TreeManifestOnly, manifest |-> Malformed]
          [] url = "up" -> [tree |-> TreeManifestOnly,
                            manifest |-> Manifest(<<Dep("pkgq", "uq", <<>>)>>)]
          [] url = "uq" -> [tree |-> TreeManifestOnly,
                            manifest |-> Manifest(<<[Dep("pkgp", "ub", <<>>)
                                                        EXCEPT !.Source.Ref = "v1"]>>)]
          [] url = "ur" -> [tree |-> TreeManifestOnly,
                            manifest |-> Manifest(<<Dep("pkgs", "us", <<>>)>>)]
          [] url = "us" -> [tree |-> TreeManifestOnly,
                            manifest |-> Manifest(<<Dep("pkgr", "ur", <<>>)>>)]
          [] url = "un" -> [tree |-> TreeManifestOnly,
                            manifest |-> Manifest(<<Dep("pkgc", "uc", <<>>),
                                                    Dep("pkgx", "ux", <<>>)>>)] ]

\* the dependencies a root manifest is written from
DepUniverse ==
    { Dep("pkga", "ua", <<>>),
      Dep("pkga", "ua", <<Strat(StrategyRemoveExtraLocal, <<generatedName \o Sep>>)>>),
      Dep("pkgb", "ub", <<>>),
      Dep("pkgb", "ub", <<Strat(StrategyIgnoreExtraPackage, <<secretsName \o Sep>>)>>),
      Dep("pkgb", "ub", <<Strat(StrategyOverwriteLocal, <<cfgName \o Sep>>)>>),
      Dep("pkgb", "ub", <<Strat(StrategyFilterPackage, <<JoinSegs(<<srcName, platformName>>)>>)>>),
      Dep("pkgc", "uc", <<>>),
      Dep("pkgc", "uc", <<Strat(StrategyOverwriteLocal, <<cfgName, <<"x">> \o Sep \o Sep>>)>>),
      Dep("pkgd", "ud", <<>>) }

\* the longest root manifest
MaxDeps == 2

\* the dependency lists a manifest may hold: names unique within the file
RECURSIVE DepLists(_)
DepLists(n) ==
    IF n = 0 THEN { <<>> }
    ELSE LET shorter == DepLists(n - 1)
         IN  shorter \cup
             { Append(l, d) : l \in { x \in shorter : Len(x) = n - 1 },
                              d \in DepUniverse }

UniqueNames(l) == \A i, j \in 1..Len(l) : l[i].Name = l[j].Name => i = j

Manifests == { l \in DepLists(MaxDeps) : UniqueNames(l) }

(***************************************************************************)
(* The resolver (DownloadManager).  The packages directory is a function   *)
(* from <<name, target>> to the fetched directory found there.             *)
(***************************************************************************)
\* the error of downloadPackage: the download fails when the remote cannot be reached
downloadError(pkg) == IF pkg.Source.URL \in Unreachable THEN "other" ELSE "nil"

\* downloadPackage: the package's directory holds what its remote serves; a failed
\* download leaves no directory
downloadPackage(pkg, cache) ==
    IF downloadError(pkg) # "nil" THEN cache
    ELSE MapPut(cache, <<pkg.Name, GetTarget(pkg)>>, Remote[pkg.Source.URL])

\* Lookup: the manifest file read and parsed
Lookup(dir) ==
    IF composeFile \notin DOMAIN dir.tree \/ ~dir.manifest.present
    THEN [cfg |-> <<>>, err |-> "errComposeNotExists"]
    ELSE IF dir.manifest.malformed
    THEN [cfg |-> <<>>, err |-> "parse"]
    ELSE [cfg |-> dir.manifest.Dependencies, err |-> "nil"]

\* the nested manifest recursiveDownload proceeds with: the file is there and Lookup
\* returned no error
HasManifest(dir) == composeFile \in DOMAIN dir.tree /\ Lookup(dir).err = "nil"

\* recursiveDownload: every dependency of the manifest downloaded, its own manifest
\* resolved before the package is appended; added is what parent.AddDependency collects
RECURSIVE recursiveDownload(_, _, _, _)
recursiveDownload(deps, packages, cache, added) ==
    IF Len(deps) = 0 THEN [packages |-> packages, cache |-> cache, added |-> added, err |-> "nil"]
    ELSE LET d      == deps[1]
             pkg    == ToPackage(d, d.Name)
             added2 == Append(added, d.Name)
         IN  IF pkg.Source.URL = ""
             THEN [packages |-> packages, cache |-> cache, added |-> added2, err |-> "errNoURL"]
             ELSE IF downloadError(pkg) # "nil"
             THEN [packages |-> packages, cache |-> cache, added |-> added2,
                   err |-> downloadError(pkg)]
             ELSE LET cache2 == downloadPackage(pkg, cache)
                      dir    == cache2[<<pkg.Name, GetTarget(pkg)>>]
                      sub    == IF HasManifest(dir)
                                THEN recursiveDownload(Lookup(dir).cfg, packages, cache2, <<>>)
                                ELSE [packages |-> packages, cache |-> cache2,
                                      added |-> <<>>, err |-> "nil"]
                      done   == [pkg EXCEPT !.Dependencies = sub.added]
                  IN  IF sub.err # "nil"
                      THEN [packages |-> sub.packages, cache |-> sub.cache,
                            added |-> added2, err |-> sub.err]
                      ELSE recursiveDownload(Tail(deps), Append(sub.packages, done),
                                             sub.cache, added2)

(***************************************************************************)
(* The dependency graph and its order (buildDependenciesGraph, and         *)
(* Graph.TopSort of github.com/stevenle/topsort as build calls it).  A     *)
(* graph is a function from node names to the set of their edge targets.   *)
(***************************************************************************)
\* Graph.AddNode
AddNode(g, n) == IF n \in DOMAIN g THEN g ELSE MapPut(g, n, {})

\* Graph.AddEdge: both ends are nodes afterwards
AddEdge(g, from, to) ==
    LET g2 == AddNode(AddNode(g, from), to)
    IN  [g2 EXCEPT ![from] = @ \cup {to}]

\* the edges of one package added from the dependency to the package
RECURSIVE AddEdges_Reversed(_, _, _)
AddEdges_Reversed(g, from, deps) ==
    IF Len(deps) = 0 THEN g
    ELSE AddEdges_Reversed(AddEdge(g, deps[1], from), from, Tail(deps))

\* the edges of one package added to the graph
RECURSIVE AddEdges(_, _, _)
AddEdges(g, from, deps) ==
    IF Len(deps) = 0 THEN g ELSE AddEdges(AddEdge(g, from, deps[1]), from, Tail(deps))

\* packageNames of buildDependenciesGraph: TRUE for the names no package depends on
RECURSIVE PackageNames(_, _)
PackageNames(pkgs, names) ==
    IF Len(pkgs) = 0 THEN names
    ELSE LET a  == pkgs[1]
             n1 == IF a.Name \notin DOMAIN names THEN MapPut(names, a.Name, TRUE) ELSE names
             n2 == [ x \in DOMAIN n1 \cup { a.Dependencies[i] : i \in 1..Len(a.Dependencies) } |->
                       IF \E i \in 1..Len(a.Dependencies) : a.Dependencies[i] = x
                       THEN FALSE ELSE n1[x] ]
         IN  PackageNames(Tail(pkgs), n2)

\* the nodes and edges of the packages themselves
RECURSIVE PackageGraph(_, _)
PackageGraph(pkgs, g) ==
    IF Len(pkgs) = 0 THEN g
    ELSE PackageGraph(Tail(pkgs),
                      AddEdges(AddNode(g, pkgs[1].Name), pkgs[1].Name, pkgs[1].Dependencies))

\* the edges from the synthetic root to the given names
RECURSIVE AddRootEdges(_, _)
AddRootEdges(g, names) ==
    IF names = {} THEN g
    ELSE LET n == CHOOSE x \in names : TRUE
         IN  AddRootEdges(AddEdge(g, DependencyRoot, n), names \ {n})

\* buildDependenciesGraph
buildDependenciesGraph(pkgs) ==
    LET names == PackageNames(pkgs, <<>>)
    IN  AddRootEdges(PackageGraph(pkgs, <<>>), { n \in DOMAIN names : names[n] })

\* orderedset.add of the topsort package: appended unless already a member
OrderedAdd(items, name) ==
    IF \E i \in 1..Len(items) : items[i] = name THEN items ELSE Append(items, name)

\* the edges of a node; a name that is no node has none
EdgesOf(g, name) == IF name \in DOMAIN g THEN g[name] ELSE {}

\* Graph.visit: the node's edges are visited first, in the order the iteration over a Go
\* map yields them, which is any order; a node met again on the current path is a cycle
RECURSIVE Visit(_, _, _, _)
RECURSIVE VisitEdges(_, _, _, _)
Visit(g, name, results, visited) ==
    IF name \in visited THEN { [ok |-> FALSE, results |-> results] }
    ELSE { IF r.ok THEN [ok |-> TRUE, results |-> OrderedAdd(r.results, name)] ELSE r :
             r \in VisitEdges(g, EdgesOf(g, name), results, visited \cup {name}) }

VisitEdges(g, todo, results, visited) ==
    IF todo = {} THEN { [ok |-> TRUE, results |-> results] }
    ELSE UNION { UNION { IF r.ok THEN VisitEdges(g, todo \ {e}, r.results, visited) ELSE {r} :
                           r \in Visit(g, e, results, visited) } :
                 e \in todo }

\* the item lists graph.TopSort(DependencyRoot) can return to build, which drops the
\* error: no items at all when the graph has a cycle
TopSort(g, name) ==
    { IF r.ok THEN r.results ELSE <<>> : r \in Visit(g, name, <<>>, {}) }

(***************************************************************************)
(* The baseline pass of Builder.build.                                     *)
(***************************************************************************)
\* rgxPathRoot.FindString: the first segment of the path
PathRoot(path) == Split(path)[1]

\* getVersionedMap: every file of HEAD's tree and the directory holding it; head is
\* the set of committed file paths
getVersionedMap(files) == files \cup { Dir(f) : f \in files }

platformDir == <<"platformDir">>

\* the baseline walk's callback without the strategies that target local files
BaselineSkip_NoLocalStrategies(path, kind, ls, checkVersioned, versionedMap) ==
    \/ PathRoot(path) \in excludedFolders
    \/ kind # "dir" /\ Base(path) \in excludedFiles
    \/ /\ checkVersioned
       /\ ~HasPrefix(path, gitPrefix)
       /\ path \notin versionedMap

\* the baseline walk's callback looking the whole path up in excludedFiles
BaselineSkip_WholePath(path, kind, ls, checkVersioned, versionedMap) ==
    \/ PathRoot(path) \in excludedFolders
    \/ kind # "dir" /\ path \in excludedFiles
    \/ \E k \in 1..Len(ls) :
           /\ ls[k].s = removeExtraLocalFiles
           /\ ensureStrategyPrefixPath(path, ls[k].paths)
    \/ /\ checkVersioned
       /\ ~HasPrefix(path, gitPrefix)
       /\ path \notin versionedMap

\* the baseline walk's callback without the look-up in versionedMap
BaselineSkip_KeepUnversioned(path, kind, ls, checkVersioned, versionedMap) ==
    \/ PathRoot(path) \in excludedFolders
    \/ kind # "dir" /\ Base(path) \in excludedFiles
    \/ \E k \in 1..Len(ls) :
           /\ ls[k].s = removeExtraLocalFiles
           /\ ensureStrategyPrefixPath(path, ls[k].paths)

\* the early returns of the baseline walk's callback: the path becomes no entry
BaselineSkip(path, kind, ls, checkVersioned, versionedMap) ==
    \/ PathRoot(path) \in excludedFolders
    \/ kind # "dir" /\ Base(path) \in excludedFiles
    \/ \E k \in 1..Len(ls) :
           /\ ls[k].s = removeExtraLocalFiles
           /\ ensureStrategyPrefixPath(path, ls[k].paths)
    \/ /\ checkVersioned
       /\ ~HasPrefix(path, gitPrefix)
       /\ path \notin versionedMap

\* the callback of the baseline walk applied to the paths in walk order
RECURSIVE BaselineWalk(_, _, _, _, _, _, _)
BaselineWalk(paths, tree, ls, checkVersioned, versionedMap, eTree, eMap) ==
    IF Len(paths) = 0 THEN [tree |-> eTree, map |-> eMap]
    ELSE LET path == paths[1]
             rest == Tail(paths)
             kind == KindAt(tree, path)
             skip == BaselineSkip(path, kind, ls, checkVersioned, versionedMap)
             entry == [Prefix |-> platformDir, SrcPath |-> path, DstPath |-> path,
                       Entry |-> kind, From |-> "domain repo"]
         IN  IF skip
             THEN BaselineWalk(rest, tree, ls, checkVersioned, versionedMap, eTree, eMap)
             ELSE BaselineWalk(rest, tree, ls, checkVersioned, versionedMap,
                               Append(eTree, entry), MapPut(eMap, path, Len(eTree) + 1))

(***************************************************************************)
(* One package pass of Builder.build.                                      *)
(***************************************************************************)
\* filepath.Join(b.sourceDir, pkgName, targetsMap[pkgName])
PkgPath(pkgName, target) == <<"sourceDir", pkgName, target>>

\* the callback of the package walk applied to the paths in walk order
RECURSIVE PackageWalk(_, _, _, _, _, _, _, _, _)
PackageWalk(paths, tree, pkgPath, pkgName, isModern, ok, strategies, eTree, eMap) ==
    IF Len(paths) = 0 THEN [tree |-> eTree, map |-> eMap]
    ELSE LET path == paths[1]
             rest == Tail(paths)
         IN  IF HasPrefix(path, gitPrefix)
             THEN PackageWalk(rest, tree, pkgPath, pkgName, isModern, ok, strategies, eTree, eMap)
             ELSE LET adjustedPath == adjustDestinationPath(path, isModern)
                      entry == [Prefix |-> pkgPath, SrcPath |-> path, DstPath |-> adjustedPath,
                                Entry |-> KindAt(tree, path), From |-> pkgName]
                      r     == IF ~ok THEN addEntries(eTree, eMap, entry, adjustedPath)
                               ELSE addStrategyEntries(strategies, eTree, eMap, entry,
                                                       adjustedPath)
                  IN  PackageWalk(rest, tree, pkgPath, pkgName, isModern, ok, strategies,
                                  r.tree, r.map)

(***************************************************************************)
(* The state of a run of Composer.RunInstall.                              *)
(***************************************************************************)
VARIABLES
    baseTree,          \* the local tree below the working directory
    compose,           \* the dependencies of the root manifest
    skipNotVersioned,  \* the skip-unversioned option
    head,              \* the local repository: whether there is one, the files of HEAD's tree
    pc,                \* where the run is
    cache,             \* the packages directory: <<name, target>> -> fetched directory
    packages,          \* the resolved package list
    entriesTree,       \* the builder's ordered entries
    entriesMap,        \* the builder's map: destination path -> position in entriesTree
    items,             \* the result of graph.TopSort
    i,                 \* the index of the package loop
    merged,            \* the package names merged so far in this run, in order
    j,                 \* the index of the materialization loop
    out,               \* the merged directory: whether it exists, path -> what lies there
    run,               \* 1 for the first run, 2 for the run that repeats it
    firstOut           \* the merged directory the first run left

\* the termination signal of RunInstall: its goroutine and the context it cancels
VARIABLES
    sig,               \* where the signal goroutine is: waiting, received, cleaned, cancelled
    ctxDone,           \* whether cancel() was called: ctx.Done() is closed
    frames,            \* the calls of recursiveDownload in progress, the innermost last
    atSignal           \* what the run had reached when the signal was received

cancelVars == <<sig, ctxDone, frames, atSignal>>

\* the download of the packages: DownloadManager, the git downloader and the keyring
VARIABLES
    kw,                \* keyringWrapper: interactive, shouldUpdate, the items of the keyring
    saved,             \* the item sets keyringService.Save has persisted, in order
    prompts,           \* the calls of fillCredentials: the step that asked, whether it got some
    fpc,               \* where DownloadManager.Download is
    dep,               \* the index of the dependency recursiveDownload is at
    disk,              \* the packages directory: <<name, target>> -> what lies there
    remoteTag,         \* the hash the remotes serve for a tag
    op,                \* what the authentication chain runs: a clone or a fetch, of which ref
    authMode,          \* the index of the chain's step in auths
    trail,             \* the steps of the chain in progress, with how each ended
    tries,             \* the calls of tryDownload of the Download in progress, with their errors
    ferr,              \* the error the last call returned
    checked            \* the last answer of ensureLatestTag, with what it compared

fetchVars == <<kw, saved, prompts, fpc, dep, disk, remoteTag, op, authMode, trail, tries, ferr,
               checked>>

\* the resolution of the manifests: the root manifest file and what recursiveDownload did
VARIABLES
    rootYaml,          \* the manifest file of the working directory
    rerr,              \* the error recursiveDownload is returning, "nil" for none
    attempts,          \* the names downloadPackage was called for, in order
    lookups,           \* the manifests found in downloaded packages, with what Lookup returned
    noURL              \* where recursiveDownload met a dependency without URL

resolveVars == <<rootYaml, rerr, attempts, lookups, noURL>>

\* the locals of Builder.build that come from reading the local repository
VARIABLES
    versionedMap,      \* the result of getVersionedMap
    checkVersioned     \* whether the baseline walk looks paths up in versionedMap

walkVars == <<versionedMap, checkVersioned>>

\* one call of addStrategyEntries by the package walk
VARIABLES
    declared,          \* the strategies of the package, as retrieveStrategies holds them
    incoming,          \* the entry of the callback
    resolved           \* the call: whether it ran, the conflict resolution it returned,
                       \* the entry list and the map it was given

strategyVars == <<declared, incoming, resolved>>

\* one run of the model:release action (actions/release/release.go)
VARIABLES
    rpc,               \* where Release.Execute is
    ropts,             \* the options and what the run finds: branch, remote, commits, image
    localTags,         \* the tags of the local repository
    originTags,        \* the tags of the remote origin
    forge,             \* the releases and the assets of the forge
    newVersion,        \* the version Execute decided to release
    tagsBefore,        \* the tags of the local repository when Execute began
    relErr             \* what Execute returned: "nil" or the error

releaseVars == <<rpc, ropts, localTags, originTags, forge, newVersion, tagsBefore, relErr>>

\* what the operations record of the calls they make
VARIABLES
    handed             \* the calls of a downloader's Download: the package, its type, the
                       \* directory handed over, the directory recursiveDownload reads

\* the materialization loop with the mode bits of the entries
VARIABLES
    modeTree,          \* the collected entries, each with the mode of its source
    modeOut,           \* the merged directory: kind and mode bits by path
    modeJ,             \* the entry the loop is at
    umask              \* the mode bits the process's umask clears at creation

modeVars == <<modeTree, modeOut, modeJ, umask>>

\* the start of a run over what an earlier run left
VARIABLES
    clean,             \* ComposerOptions.Clean
    previous           \* the merged directory and the packages directory before the run

cleanVars == <<clean, previous>>

\* the package forms on the manifest file
VARIABLES
    composeYaml,       \* the dependencies of the manifest file in the directory
    formsErr           \* what the last form operation returned

formVars == <<composeYaml, formsErr>>

moreVars == <<modeVars, cleanVars, formVars>>

otherVars == <<handed, moreVars>>

\* the state of the other operations
extra == <<walkVars, strategyVars, releaseVars, otherVars>>

\* what the install of one working directory does not touch
aux == <<cancelVars, fetchVars, resolveVars, extra>>

vars == <<baseTree, compose, skipNotVersioned, head, pc, cache, packages, entriesTree,
          entriesMap, items, i, merged, j, out, run, firstOut, aux>>

inputs == <<baseTree, compose, skipNotVersioned, head>>

\* the state of the install itself
installVars == <<baseTree, compose, skipNotVersioned, head, pc, cache, packages, entriesTree,
                  entriesMap, items, i, merged, j, out, run, firstOut>>

\* the regular files and symlinks of a tree
Files(tree) == { p \in DOMAIN tree : tree[p] # "dir" }

\* what HEAD of the local repository may hold: no repository at all, every file of the
\* tree, or only the files below its directories
NoRepo == [repo |-> FALSE, files |-> {}]

Heads(tree) ==
    { NoRepo,
      [repo |-> TRUE, files |-> Files(tree)],
      [repo |-> TRUE, files |-> { f \in Files(tree) : Len(Split(f)) > 1 }] }

Absent == [exists |-> FALSE, entries |-> <<>>]

\* no signal was sent: the goroutine of RunInstall waits on signalChan
NotReceived == [pc |-> "", dirs |-> {}, out |-> Absent]

NoSignal ==
    /\ sig = "waiting"
    /\ ctxDone = FALSE
    /\ frames = <<>>
    /\ atSignal = NotReceived

\* no dependency without URL was met
NotMet == [hit |-> FALSE, attempts |-> 0, depth |-> 0]

\* the root manifest parsed, no resolution yet
NoResolve ==
    /\ rootYaml = Manifest(compose)
    /\ rerr = "nil"
    /\ attempts = <<>>
    /\ lookups = <<>>
    /\ noURL = NotMet

\* Builder.build has not read the repository
NoWalk ==
    /\ versionedMap = {}
    /\ checkVersioned = FALSE

\* no entry at hand
NoEntry == [Prefix |-> <<>>, SrcPath |-> <<>>, DstPath |-> <<>>, Entry |-> "", From |-> ""]

\* addStrategyEntries was not called
NotCalled == [called |-> FALSE, conflict |-> noConflict, tree |-> <<>>, map |-> <<>>]

NoStrategy ==
    /\ declared = <<>>
    /\ incoming = NoEntry
    /\ resolved = NotCalled

\* no version
NoVersion == [Major |-> -1, Minor |-> -1, Patch |-> -1]

\* the forge without releases
NoReleases == [releases |-> {}, assets |-> {}]

\* the options of a release that was not asked for
NoOptions ==
    [DryRun |-> FALSE, TagOnly |-> FALSE, Version |-> "", Explicit |-> NoVersion, branch |-> "",
     hasRemote |-> FALSE, fails |-> "none", changes |-> FALSE, image |-> FALSE]

\* Release.Execute is not running
NoRelease ==
    /\ rpc = ""
    /\ ropts = NoOptions
    /\ localTags = {}
    /\ originTags = {}
    /\ forge = NoReleases
    /\ newVersion = NoVersion
    /\ tagsBefore = {}
    /\ relErr = "nil"

\* nothing recorded
\* no entry to materialize with its mode
NoMode ==
    /\ modeTree = <<>>
    /\ modeOut = <<>>
    /\ modeJ = 0
    /\ umask = {}

\* the first run in the directory, with the clean option set
NoPrevious ==
    /\ clean = TRUE
    /\ previous = [out |-> Absent, cache |-> <<>>]

\* no form operation
NoForms ==
    /\ composeYaml = <<>>
    /\ formsErr = "nil"

NoMore ==
    /\ NoMode
    /\ NoPrevious
    /\ NoForms

NoOther ==
    /\ handed = <<>>
    /\ NoMore

NoExtra ==
    /\ NoWalk
    /\ NoStrategy
    /\ NoRelease
    /\ NoOther

\* a keyring without items, not interactive
NoKeyring == [interactive |-> FALSE, shouldUpdate |-> FALSE, store |-> {}, broken |-> FALSE]

\* no operation of the authentication chain
NoOp == [kind |-> "", ref |-> ""]

\* ensureLatestTag was not called
NotChecked == [called |-> FALSE, isLatest |-> FALSE, same |-> FALSE, atHead |-> FALSE]

\* DownloadManager.Download is not running
NoFetch ==
    /\ kw = NoKeyring
    /\ saved = <<>>
    /\ prompts = <<>>
    /\ fpc = ""
    /\ dep = 0
    /\ disk = <<>>
    /\ remoteTag = ""
    /\ op = NoOp
    /\ authMode = 0
    /\ trail = <<>>
    /\ tries = <<>>
    /\ ferr = ""
    /\ checked = NotChecked

Init ==
    /\ baseTree \in BaseTrees
    /\ compose \in Manifests
    /\ \/ skipNotVersioned = FALSE /\ head = NoRepo
       \/ skipNotVersioned = TRUE /\ head \in Heads(baseTree)
    /\ pc = "start"
    /\ cache = <<>>
    /\ packages = <<>>
    /\ entriesTree = <<>>
    /\ entriesMap = <<>>
    /\ items = <<>>
    /\ i = 0
    /\ merged = <<>>
    /\ j = 0
    /\ out = Absent
    /\ run = 1
    /\ firstOut = Absent
    /\ NoSignal
    /\ NoFetch
    /\ NoResolve
    /\ NoExtra

\* RunInstall up to the call of builder.build: prepareInstall with the clean option set
\* removes the merged directory and the packages directory, Download resolves the manifest
Install ==
    /\ pc = "start"
    /\ LET r == recursiveDownload(compose, <<>>, <<>>, <<>>)
       IN  /\ packages' = r.packages
           /\ cache' = r.cache
           /\ pc' = IF r.err = "nil" THEN "build" ELSE "failed"
    /\ out' = Absent
    /\ entriesTree' = <<>>
    /\ entriesMap' = <<>>
    /\ items' = <<>>
    /\ i' = 0
    /\ merged' = <<>>
    /\ j' = 0
    /\ UNCHANGED <<inputs, run, firstOut, aux>>

\* EnsureDirExists of the merged directory: made when it is not there, else left as it is
EnsureDirExists(o) == IF o.exists THEN o ELSE [exists |-> TRUE, entries |-> <<>>]

\* Builder.build up to the end of the baseline walk
BaselinePass ==
    /\ pc = "build"
    /\ checkVersioned' = (skipNotVersioned /\ head.repo)
    /\ versionedMap' = IF checkVersioned' THEN getVersionedMap(head.files) ELSE {}
    /\ LET st == retrieveStrategies(packages, <<>>, <<>>)
           r  == BaselineWalk(WalkDir(baseTree), baseTree, st.ls, checkVersioned',
                              versionedMap', <<>>, <<>>)
       IN  /\ entriesTree' = r.tree
           /\ entriesMap' = r.map
    /\ out' = EnsureDirExists(out)
    /\ pc' = "sort"
    /\ UNCHANGED <<inputs, cache, packages, items, i, merged, j, run, firstOut, cancelVars,
                   fetchVars, resolveVars, strategyVars, releaseVars, otherVars>>

\* where build goes when the package loop is over
AfterLoop(tree) == IF Len(tree) = 0 THEN "done" ELSE "materialize"

\* buildDependenciesGraph and graph.TopSort
SortPackages ==
    /\ pc = "sort"
    /\ items' \in TopSort(buildDependenciesGraph(packages), DependencyRoot)
    /\ i' = 1
    /\ j' = 1
    /\ pc' = IF Len(items') = 0 THEN AfterLoop(entriesTree) ELSE "merge"
    /\ UNCHANGED <<inputs, cache, packages, entriesTree, entriesMap, merged, out, run, firstOut,
                   aux>>

\* one iteration of the package loop: the walk of the package items[i]
PackagePass ==
    /\ pc = "merge"
    /\ i <= Len(items)
    /\ LET pkgName == items[i]
           targets == getTargetsMap(packages, <<>>)
           ps      == retrieveStrategies(packages, <<>>, <<>>).ps
           dirKey  == <<pkgName, IF pkgName \in DOMAIN targets THEN targets[pkgName] ELSE "">>
           nextPc(tree) == IF i = Len(items) THEN AfterLoop(tree) ELSE "merge"
       IN  IF pkgName = DependencyRoot
           THEN /\ pc' = nextPc(entriesTree)
                /\ UNCHANGED <<entriesTree, entriesMap, merged>>
           ELSE IF dirKey \notin DOMAIN cache
           THEN /\ pc' = "failed"
                /\ UNCHANGED <<entriesTree, entriesMap, merged>>
           ELSE LET tree == cache[dirKey].tree
                    r    == PackageWalk(WalkDir(tree), tree, PkgPath(pkgName, dirKey[2]),
                                        pkgName, hasModernLayout(tree),
                                        pkgName \in DOMAIN ps,
                                        IF pkgName \in DOMAIN ps THEN ps[pkgName] ELSE <<>>,
                                        entriesTree, entriesMap)
                IN  /\ entriesTree' = r.tree
                    /\ entriesMap' = r.map
                    /\ merged' = Append(merged, pkgName)
                    /\ pc' = nextPc(r.tree)
    /\ i' = i + 1
    /\ UNCHANGED <<inputs, cache, packages, items, j, out, run, firstOut, aux>>

(***************************************************************************)
(* Materialization: the second pass of Builder.build.  The merged          *)
(* directory is a function from the paths below it to what lies there.     *)
(***************************************************************************)
\* os.MkdirAll fails when an ancestor of the path, or the path, is not a directory
MkdirAllFails(o, path) ==
    \E a \in Ancestors(path) \cup {path} : a \in DOMAIN o /\ o[a].kind # "dir"

\* the parent directory of the path exists in the merged directory
ParentExists(o, path) ==
    LET parent == Dir(path)
    IN  parent = Dot \/ (parent \in DOMAIN o /\ o[parent].kind = "dir")

\* what one entry leaves at its destination
Written(entry) == [kind |-> entry.Entry, Prefix |-> entry.Prefix, SrcPath |-> entry.SrcPath]

\* createDir, lcopy or fcopy of one entry: whether it fails, the merged directory afterwards
MaterializeEntry(o, entry) ==
    LET dst == entry.DstPath
        Fail == [err |-> TRUE, o |-> o]
        Ok(o2) == [err |-> FALSE, o |-> o2]
    IN  CASE entry.Entry = "dir" ->
               IF dst = Dot \/ dst \in DOMAIN o THEN Ok(o)
               ELSE IF MkdirAllFails(o, dst) THEN Fail
               ELSE Ok([ p \in DOMAIN o \cup Ancestors(dst) \cup {dst} |->
                           IF p \in DOMAIN o THEN o[p] ELSE Written(entry) ])
          [] entry.Entry = "symlink" ->
               IF dst \in DOMAIN o \/ ~ParentExists(o, dst) THEN Fail
               ELSE Ok(MapPut(o, dst, Written(entry)))
          [] OTHER ->
               IF ~ParentExists(o, dst) \/ (dst \in DOMAIN o /\ o[dst].kind = "dir")
               THEN Fail
               ELSE Ok(MapPut(o, dst, Written(entry)))

\* one iteration of the materialization loop
Materialize ==
    /\ pc = "materialize"
    /\ j <= Len(entriesTree)
    /\ LET r == MaterializeEntry(out.entries, entriesTree[j])
       IN  IF r.err
           THEN pc' = "failed" /\ out' = out
           ELSE /\ out' = [out EXCEPT !.entries = r.o]
                /\ pc' = IF j = Len(entriesTree) THEN "done" ELSE "materialize"
    /\ j' = j + 1
    /\ UNCHANGED <<inputs, cache, packages, entriesTree, entriesMap, items, i, merged, run,
                   firstOut, aux>>

\* the same compose is run once more on the same inputs
Rerun ==
    /\ pc = "done"
    /\ run = 1
    /\ run' = 2
    /\ firstOut' = out
    /\ pc' = "start"
    /\ UNCHANGED <<inputs, cache, packages, entriesTree, entriesMap, items, i, merged, j, out,
                   aux>>

Next ==
    \/ Install
    \/ BaselinePass
    \/ SortPackages
    \/ PackagePass
    \/ Materialize
    \/ Rerun

Spec == Init /\ [][Next]_vars

(***************************************************************************)
(* Properties.                                                             *)
(***************************************************************************)
\* no resolved package declares a strategy
NoStrategiesDeclared == \A k \in 1..Len(packages) : packages[k].Source.Strategies = <<>>

\* the fetched directory build reads for a package name
DirOf(pkgName) == cache[<<pkgName, getTargetsMap(packages, <<>>)[pkgName]>>]

\* the directory build reads for a package name, as the Prefix of its entries
PathOf(pkgName) == PkgPath(pkgName, getTargetsMap(packages, <<>>)[pkgName])

\* the destination paths the tree of a package produces
SuppliedBy(pkgName) ==
    LET tree == DirOf(pkgName).tree
    IN  { adjustDestinationPath(p, hasModernLayout(tree)) :
            p \in { q \in DOMAIN tree \cup {Dot} : ~HasPrefix(q, gitPrefix) } }

\* the entry the map holds for a destination path
Winner(d) == entriesTree[entriesMap[d]]

\* the package names merged so far, as a set
MergedSet == { merged[k] : k \in 1..Len(merged) }

\* the position of a package name in the merge order
MergedAt(n) == CHOOSE k \in 1..Len(merged) : merged[k] = n

xyPath == JoinSegs(<<<<"x">>, yYaml>>)
cfgAPath == JoinSegs(<<cfgName, aYaml>>)

\* C1: with no strategy declared, a package pass leaves every winner it finds as it is,
\* wins exactly the destination paths it supplies that had no winner, and the merged
\* directory holds for every file the content of its winner: the first source that
\* supplied a path wins it.
C1_FirstWriterWins ==
    [][ /\ (pc = "merge" /\ NoStrategiesDeclared /\ items[i] # DependencyRoot) =>
            /\ \A d \in DOMAIN entriesMap :
                  /\ d \in DOMAIN entriesMap'
                  /\ entriesTree'[entriesMap'[d]] = Winner(d)
            /\ DOMAIN entriesMap' = DOMAIN entriesMap \cup SuppliedBy(items[i])
            /\ \A d \in DOMAIN entriesMap' \ DOMAIN entriesMap :
                  /\ entriesTree'[entriesMap'[d]].From = items[i]
                  /\ entriesTree'[entriesMap'[d]].Prefix = PathOf(items[i])
        /\ (pc' = "done" /\ NoStrategiesDeclared) =>
            \A d \in DOMAIN entriesMap' :
                entriesTree'[entriesMap'[d]].Entry # "dir" =>
                    /\ d \in DOMAIN out'.entries
                    /\ out'.entries[d] = Written(entriesTree'[entriesMap'[d]])
      ]_vars

\* C1 witness: two packages without strategies both supply x/y.yaml, the baseline does
\* not, and the merged file is the one of the package merged first
C1_Witness ==
    /\ pc = "done"
    /\ NoStrategiesDeclared
    /\ Len(merged) >= 2
    /\ xyPath \notin DOMAIN baseTree
    /\ xyPath \in SuppliedBy(merged[1]) \cap SuppliedBy(merged[2])
    /\ out.entries[xyPath].Prefix = PathOf(merged[1])

\* C2: once the baseline pass is over, the entry list holds at most one entry per
\* destination path, the map points to every entry of the list and to each only once,
\* and every key of the map is the DstPath of the entry it points to.
C2_OneWinnerPerPath ==
    pc \in {"sort", "merge", "materialize", "done"} =>
        /\ \A k, m \in 1..Len(entriesTree) :
              entriesTree[k].DstPath = entriesTree[m].DstPath => k = m
        /\ { entriesMap[d] : d \in DOMAIN entriesMap } = 1..Len(entriesTree)
        /\ \A d, e \in DOMAIN entriesMap : entriesMap[d] = entriesMap[e] => d = e
        /\ \A d \in DOMAIN entriesMap : Winner(d).DstPath = d

\* C2 witness: the passes are over, packages with strategies were merged, a baseline
\* entry was replaced in place and package entries were added
C2_Witness ==
    /\ pc = "materialize"
    /\ ~NoStrategiesDeclared
    /\ Len(merged) >= 2
    /\ \E k, m \in 1..Len(entriesTree) :
          /\ k < m
          /\ entriesTree[k].From # "domain repo"
          /\ entriesTree[m].From = "domain repo"

\* the parent -> child edges recorded during resolution
DependencyEdges ==
    UNION { { <<packages[k].Name, packages[k].Dependencies[m]>> :
                m \in 1..Len(packages[k].Dependencies) } :
            k \in 1..Len(packages) }

\* C3 as stated: for every parent -> child edge, the child is merged only after the
\* parent has been merged.
C3_ChildAfterParent ==
    \A e \in DependencyEdges :
        e[2] \in MergedSet => (e[1] \in MergedSet /\ MergedAt(e[1]) < MergedAt(e[2]))

\* C3 amended: for every parent -> child edge, the parent is merged only after the child
\* has been merged (dependencies first).
C3_ParentAfterChild ==
    \A e \in DependencyEdges :
        e[1] \in MergedSet => (e[2] \in MergedSet /\ MergedAt(e[2]) < MergedAt(e[1]))

\* C3 witness: a package and the dependency its own manifest declares are both merged
C3_Witness ==
    /\ pc = "done"
    /\ \E e \in DependencyEdges : e[1] \in MergedSet /\ e[2] \in MergedSet

\* C4 as stated: the second of two runs on identical inputs with the clean flag set
\* ends with the merged directory the first run left, every destination path holding
\* the content of the same origin.
C4_SameOutputTwice ==
    (run = 2 /\ pc = "done") => out = firstOut

\* the names of the root manifest's dependencies, in declaration order
Declared == [ k \in 1..Len(compose) |-> compose[k].Name ]

\* there is a dependency path from n to m
RECURSIVE Reaches(_, _, _)
Reaches(n, m, fuel) ==
    /\ fuel > 0
    /\ \/ <<n, m>> \in DependencyEdges
       \/ \E e \in DependencyEdges : e[1] = n /\ Reaches(e[2], m, fuel - 1)

Independent(n, m) ==
    /\ n # m
    /\ ~Reaches(n, m, Len(packages))
    /\ ~Reaches(m, n, Len(packages))

\* C5 as stated: two sibling packages of the root manifest with no dependency path
\* between them are merged in the order in which the manifest declares them.
C5_SiblingsInDeclarationOrder ==
    \A k, m \in 1..Len(Declared) :
        (/\ k < m
         /\ Independent(Declared[k], Declared[m])
         /\ Declared[k] \in MergedSet
         /\ Declared[m] \in MergedSet) => MergedAt(Declared[k]) < MergedAt(Declared[m])

\* the path lies below the top-level directory dir
Under(d, dir) == Len(Split(d)) >= 2 /\ Split(d)[1] = dir

\* n is the name of a resolved package
IsPackage(n) == \E k \in 1..Len(packages) : packages[k].Name = n

\* the record of a package name the name-keyed maps of build end up with: the last one
Effective(n) ==
    packages[CHOOSE k \in 1..Len(packages) :
                 /\ packages[k].Name = n
                 /\ \A m \in (k + 1)..Len(packages) : packages[m].Name # n]

\* the package declares the one strategy, with the top-level directory among its paths
DeclaresOnly(n, strategy, dir) ==
    LET st == Effective(n).Source.Strategies
    IN  /\ Len(st) = 1
        /\ st[1].Name = strategy
        /\ \E m \in 1..Len(st[1].Paths) : st[1].Paths[m] \in {dir, dir \o Sep}

\* the positions in the merge order of the packages that declare overwrite-local-file
\* for cfg/ and supply the destination path
CfgOverwriters(order, d) ==
    { k \in 1..Len(order) : /\ DeclaresOnly(order[k], StrategyOverwriteLocal, cfgName)
                            /\ d \in SuppliedBy(order[k]) }

Max(S) == CHOOSE x \in S : \A y \in S : y <= x
Min(S) == CHOOSE x \in S : \A y \in S : x <= y

\* C6: the pass of a package that declares overwrite-local-file for cfg/ leaves, for
\* every destination path below cfg/ the package supplies, the package's entry as the
\* winner: in the position of the entry that occupied the path when there was one, as a
\* new last entry when there was none; the merged directory then holds at that path the
\* content of the last such package.
C6_OverwriteLocalFile ==
    [][ /\ (/\ pc = "merge"
            /\ IsPackage(items[i])
            /\ DeclaresOnly(items[i], StrategyOverwriteLocal, cfgName)) =>
               \A d \in SuppliedBy(items[i]) :
                   Under(d, cfgName) =>
                       /\ d \in DOMAIN entriesMap'
                       /\ entriesTree'[entriesMap'[d]].From = items[i]
                       /\ entriesTree'[entriesMap'[d]].Prefix = PathOf(items[i])
                       /\ entriesTree'[entriesMap'[d]].SrcPath \in DOMAIN DirOf(items[i]).tree
                       /\ entriesTree'[entriesMap'[d]].DstPath = d
                       /\ IF d \in DOMAIN entriesMap
                          THEN entriesMap'[d] = entriesMap[d]
                          ELSE entriesMap'[d] > Len(entriesTree)
        /\ pc' = "done" =>
               \A d \in DOMAIN entriesMap' :
                   (Under(d, cfgName) /\ CfgOverwriters(merged', d) # {}) =>
                       /\ d \in DOMAIN out'.entries
                       /\ out'.entries[d].Prefix =
                              PathOf(merged'[Max(CfgOverwriters(merged', d))])
      ]_vars

\* C6 witness: the baseline holds cfg/a.yaml, a package that declares overwrite-local-file
\* for cfg/ was merged, its entry took the place of the baseline's among the baseline
\* entries, and the merged directory holds the package's file
C6_Witness ==
    /\ pc = "done"
    /\ cfgAPath \in DOMAIN baseTree
    /\ CfgOverwriters(merged, cfgAPath) # {}
    /\ out.entries[cfgAPath].Prefix # platformDir
    /\ \E k \in 1..Len(entriesTree) :
          /\ k > entriesMap[cfgAPath]
          /\ entriesTree[k].From = "domain repo"

\* some package declares remove-extra-local-files for generated/
DeclaresRemoveGenerated ==
    \E k \in 1..Len(packages) :
        \E n \in 1..Len(packages[k].Source.Strategies) :
            LET st == packages[k].Source.Strategies[n]
            IN  /\ st.Name = StrategyRemoveExtraLocal
                /\ \E m \in 1..Len(st.Paths) :
                       st.Paths[m] \in {generatedName, generatedName \o Sep}

\* C7: when a package declares remove-extra-local-files for generated/, the baseline
\* pass keeps no entry below generated/, no baseline entry below generated/ appears
\* later, and the merged directory holds below generated/ only what a merged package
\* supplies: nothing when none does.
C7_RemoveExtraLocalFiles ==
    (pc \in {"sort", "merge", "materialize", "done"} /\ DeclaresRemoveGenerated) =>
        /\ \A k \in 1..Len(entriesTree) :
              entriesTree[k].From = "domain repo" =>
                  ~Under(entriesTree[k].DstPath, generatedName)
        /\ pc = "sort" => \A d \in DOMAIN entriesMap : ~Under(d, generatedName)
        /\ pc = "done" =>
              \A d \in DOMAIN out.entries :
                  Under(d, generatedName) =>
                      /\ out.entries[d].Prefix # platformDir
                      /\ \E k \in 1..Len(merged) :
                             /\ d \in SuppliedBy(merged[k])
                             /\ out.entries[d].Prefix = PathOf(merged[k])

\* C7 witness: the baseline holds generated/g, a package declares the strategy, no
\* merged package supplies a path below generated/ and the merged directory has none
C7_Witness ==
    /\ pc = "done"
    /\ DeclaresRemoveGenerated
    /\ Len(merged) >= 1
    /\ \E d \in DOMAIN baseTree : Under(d, generatedName)
    /\ \A d \in DOMAIN out.entries : ~Under(d, generatedName)

\* the baseline pass keeps the path when no strategy targets local files: it is in the
\* local tree, outside the reserved folder, no file named as the manifest and, in
\* skip-unversioned mode with a local repository, a .git-prefixed path, a file of HEAD
\* or the directory holding one
BaselineKeeps(d) ==
    LET segs == Split(d)
    IN  /\ d \in DOMAIN baseTree \cup {Dot}
        /\ segs[1] # plasmaFolder
        /\ ~(KindAt(baseTree, d) # "dir" /\ segs[Len(segs)] = composeFile)
        /\ (skipNotVersioned /\ head.repo) =>
              \/ HasPrefix(d, gitPrefix)
              \/ d \in head.files
              \/ \E f \in head.files :
                     IF d = Dot THEN Len(Split(f)) = 1
                     ELSE /\ Len(Split(f)) = Len(segs) + 1
                          /\ SubSeq(Split(f), 1, Len(segs)) = segs

\* the packages whose strategy in effect is ignore-extra-package-files for secrets/
Ignorers ==
    { n \in { packages[k].Name : k \in 1..Len(packages) } :
        DeclaresOnly(n, StrategyIgnoreExtraPackage, secretsName) }

\* a composition of packages without strategies and of one that ignores secrets/
IgnoreScenario ==
    /\ Ignorers # {}
    /\ \E k \in 1..Len(packages) : packages[k].Name \notin Ignorers
    /\ \A k \in 1..Len(packages) :
          packages[k].Name \notin Ignorers => packages[k].Source.Strategies = <<>>

\* the positions in the merge order of the packages that do not ignore secrets/ and
\* supply the destination path
OtherSuppliers(order, d) ==
    { k \in 1..Len(order) : order[k] \notin Ignorers /\ d \in SuppliedBy(order[k]) }

\* every destination path a merged package or the local tree may give
KnownPaths(order) ==
    DOMAIN baseTree \cup UNION { SuppliedBy(order[k]) : k \in 1..Len(order) }

\* C8 as stated: with pkgA (no strategies) and pkgB (ignore-extra-package-files for
\* secrets/), every path of the merged directory below secrets/ has the baseline's
\* content, and there is none when the baseline has none.
C8_SecretsLocalOrAbsent ==
    (pc = "done" /\ IgnoreScenario) =>
        \A d \in DOMAIN out.entries :
            Under(d, secretsName) => out.entries[d].Prefix = platformDir

\* C8 amended: the pass of the package that ignores secrets/ leaves every entry below
\* secrets/ as it is and adds none; the merged directory holds at a path below secrets/
\* the baseline's content when the baseline pass kept the path, else the content of the
\* first merged package without strategies that supplies it, else nothing: never the
\* ignoring package's.
C8_IgnoreExtraPackageFiles ==
    [][ /\ (pc = "merge" /\ IsPackage(items[i]) /\ items[i] \in Ignorers) =>
               \A d \in DOMAIN entriesMap \cup DOMAIN entriesMap' :
                   Under(d, secretsName) =>
                       /\ d \in DOMAIN entriesMap
                       /\ d \in DOMAIN entriesMap'
                       /\ entriesTree'[entriesMap'[d]] = Winner(d)
        /\ (pc' = "done" /\ IgnoreScenario) =>
               \A d \in KnownPaths(merged') \cup DOMAIN out'.entries :
                   Under(d, secretsName) =>
                       IF BaselineKeeps(d)
                       THEN /\ d \in DOMAIN out'.entries
                            /\ out'.entries[d].Prefix = platformDir
                       ELSE IF OtherSuppliers(merged', d) # {}
                       THEN /\ d \in DOMAIN out'.entries
                            /\ out'.entries[d].Prefix =
                                   PathOf(merged'[Min(OtherSuppliers(merged', d))])
                       ELSE d \notin DOMAIN out'.entries
      ]_vars

\* C8 witness: the baseline has nothing below secrets/, the package that ignores
\* secrets/ and a package without strategies both hold secrets/k, and the merged
\* directory holds the file of the package without strategies
C8_Witness ==
    /\ pc = "done"
    /\ IgnoreScenario
    /\ \A d \in DOMAIN baseTree : ~Under(d, secretsName)
    /\ \E d \in DOMAIN out.entries :
          /\ Under(d, secretsName)
          /\ out.entries[d].kind = "file"
          /\ OtherSuppliers(merged, d) # {}
          /\ \E k \in 1..Len(merged) : merged[k] \in Ignorers /\ d \in SuppliedBy(merged[k])

ModernTree(tree) ==
    \E p \in DOMAIN tree :
        /\ Len(Split(p)) >= 2
        /\ Split(p)[1] = srcName
        /\ Split(p)[2] \in layerNames

\* the roles and group_vars normalization of a package path
Norm(p) == normalizeGroupVarsToVariables(stripRolesFromPath(p))

\* C10 as stated: a package entry of a legacy-layout package whose first path segment is
\* a layer name goes to src/<normalized path>; every other package entry goes to its
\* normalized path.
C10_LayerBySourceSegment ==
    \A n \in MergedSet :
        LET legacy == ~ModernTree(DirOf(n).tree)
        IN  \A k \in 1..Len(entriesTree) :
                LET e == entriesTree[k]
                IN  e.From = n =>
                        e.DstPath = IF legacy /\ Split(e.SrcPath)[1] \in layerNames
                                    THEN srcName \o Sep \o Norm(e.SrcPath)
                                    ELSE Norm(e.SrcPath)

\* C10 amended: a package entry of a legacy-layout package whose normalized path has a
\* layer name as first segment goes to src/<normalized path>; every other package entry,
\* and every entry of a modern-layout package, goes to its normalized path.
C10_LayerByNormalizedSegment ==
    \A n \in MergedSet :
        LET legacy == ~ModernTree(DirOf(n).tree)
        IN  \A k \in 1..Len(entriesTree) :
                LET e == entriesTree[k]
                IN  e.From = n =>
                        e.DstPath = IF legacy /\ Split(Norm(e.SrcPath))[1] \in layerNames
                                    THEN srcName \o Sep \o Norm(e.SrcPath)
                                    ELSE Norm(e.SrcPath)

\* C10 witness: a legacy-layout package's platform/roles/r lies at src/platform/r, a
\* legacy-layout package's roles/platform/z at src/platform/z, and a modern-layout
\* package's platform/q at platform/q
C10_Witness ==
    /\ pc = "done"
    /\ \E a \in MergedSet :
          /\ ~ModernTree(DirOf(a).tree)
          /\ \E k \in 1..Len(entriesTree) :
                /\ entriesTree[k].From = a
                /\ entriesTree[k].SrcPath = JoinSegs(<<platformName, rolesName, <<"r">>>>)
                /\ entriesTree[k].DstPath = JoinSegs(<<srcName, platformName, <<"r">>>>)
    /\ \E c \in MergedSet :
          /\ ~ModernTree(DirOf(c).tree)
          /\ \E k \in 1..Len(entriesTree) :
                /\ entriesTree[k].From = c
                /\ entriesTree[k].SrcPath = JoinSegs(<<rolesName, platformName, <<"z">>>>)
                /\ entriesTree[k].DstPath = JoinSegs(<<srcName, platformName, <<"z">>>>)
    /\ \E b \in MergedSet :
          /\ ModernTree(DirOf(b).tree)
          /\ \E k \in 1..Len(entriesTree) :
                /\ entriesTree[k].From = b
                /\ entriesTree[k].SrcPath = JoinSegs(<<platformName, <<"q">>>>)
                /\ entriesTree[k].DstPath = entriesTree[k].SrcPath

(***************************************************************************)
(* RunInstall with its signal goroutine (compose.go).  The goroutine waits *)
(* on signalChan, then calls prepareInstall(false) and cancel(); the main  *)
(* flow looks at ctx.Done() where the code selects on it.  The goroutine   *)
(* and the main flow interleave step by step; a return of RunInstall ends  *)
(* both.                                                                   *)
(***************************************************************************)
\* how RunInstall may have returned: nil, an error, the error of the cancelled context
Returned == {"done", "failed", "cancelled"}

\* one call of recursiveDownload: its manifest, the index of its loop, the parent package
\* and what parent.AddDependency has collected
Frame(deps, pkg) == [deps |-> deps, idx |-> 1, pkg |-> pkg, added |-> <<>>]

\* the parent of the outermost call is nil
NilParent == ToPackage(Dep("", "", <<>>), "")

\* go func: <-signalChan
SignalReceived ==
    /\ sig = "waiting"
    /\ pc \notin Returned
    /\ sig' = "received"
    /\ atSignal' = [pc |-> pc, dirs |-> DOMAIN cache, out |-> out]
    /\ UNCHANGED <<inputs, pc, cache, packages, entriesTree, entriesMap, items, i, merged, j,
                   out, run, firstOut, ctxDone, frames,
                   fetchVars, resolveVars, extra>>

\* go func: c.prepareInstall(false), which removes the merged directory
SignalCleanup ==
    /\ sig = "received"
    /\ pc \notin Returned
    /\ sig' = "cleaned"
    /\ out' = Absent
    /\ UNCHANGED <<inputs, pc, cache, packages, entriesTree, entriesMap, items, i, merged, j,
                   run, firstOut, ctxDone, frames, atSignal,
                   fetchVars, resolveVars, extra>>

\* go func: cancel()
SignalCancel ==
    /\ sig = "cleaned"
    /\ pc \notin Returned
    /\ sig' = "cancelled"
    /\ ctxDone' = TRUE
    /\ UNCHANGED <<inputs, pc, cache, packages, entriesTree, entriesMap, items, i, merged, j,
                   out, run, firstOut, frames, atSignal,
                   fetchVars, resolveVars, extra>>

\* prepareInstall leaving the merged directory in place
prepareInstall_KeepsMerged(cleanOpt, o, c) ==
    [out |-> o, cache |-> IF cleanOpt THEN <<>> ELSE c]

\* prepareInstall: os.RemoveAll of the merged directory, and of the packages directory
\* when clean is set
prepareInstall(cleanOpt, o, c) ==
    [out |-> Absent, cache |-> IF cleanOpt THEN <<>> ELSE c]

\* RunInstall up to the loop of recursiveDownload: the select on ctx.Done(), prepareInstall
\* with the clean option, and Download's EnsureDirExists of the packages directory
RunInstall ==
    /\ pc = "start"
    /\ IF ctxDone
       THEN /\ pc' = "cancelled"
            /\ rerr' = "canceled"
            /\ UNCHANGED <<cache, out, frames>>
       ELSE /\ pc' = "resolve"
            /\ rerr' = "nil"
            /\ cache' = prepareInstall(clean, out, cache).cache
            /\ out' = prepareInstall(clean, out, cache).out
            /\ frames' = <<Frame(compose, NilParent)>>
    /\ UNCHANGED <<inputs, packages, entriesTree, entriesMap, items, i, merged, j, run,
                   firstOut, sig, ctxDone, atSignal, rootYaml, attempts, lookups, noURL,
                   fetchVars, extra>>

\* RunInstall going on to the builder although Download returned an error
AfterError_Continue(err) == "build"

\* where RunInstall is once Download returned the error
AfterError(err) == IF err = "canceled" THEN "cancelled" ELSE "failed"

\* the calls of recursiveDownload the goroutine's stack holds at most: the Go runtime
\* ends the process with "stack overflow" when a call needs more than the stack limit
MaxDepth == 4

\* the package appended before the call for its manifest begins
proceedWithManifest_AppendFirst(fs, pkgs, pkg, dir) ==
    IF HasManifest(dir)
    THEN [frames |-> Append(fs, Frame(Lookup(dir).cfg, pkg)), packages |-> Append(pkgs, pkg)]
    ELSE [frames |-> fs, packages |-> Append(pkgs, pkg)]

\* recursiveDownload after the package was downloaded: the call for its manifest begins
\* when the file is there and parses, else the package is appended
proceedWithManifest(fs, pkgs, pkg, dir) ==
    IF HasManifest(dir)
    THEN [frames |-> Append(fs, Frame(Lookup(dir).cfg, pkg)), packages |-> pkgs]
    ELSE [frames |-> fs, packages |-> Append(pkgs, pkg)]

\* recursiveDownload when the call for the nested manifest returned without error: the
\* package, with the dependencies parent.AddDependency collected, is appended
appendResolved(pkgs, frame) ==
    Append(pkgs, [frame.pkg EXCEPT !.Dependencies = frame.added])

\* one step of the innermost recursiveDownload: one iteration of its loop, or its return
\* to the call above it, with the error when there is one
ResolveStep ==
    /\ pc = "resolve"
    /\ LET n   == Len(frames)
           top == frames[n]
           up(fs, name) == [fs EXCEPT ![Len(fs)].idx = @ + 1,
                                      ![Len(fs)].added = Append(@, name)]
       IN  IF rerr # "nil"
           THEN /\ frames' = SubSeq(frames, 1, n - 1)
                /\ pc' = IF n = 1 THEN AfterError(rerr) ELSE pc
                /\ UNCHANGED <<cache, packages, rerr, attempts, lookups, noURL>>
           ELSE IF top.idx > Len(top.deps)
           THEN /\ frames' = SubSeq(frames, 1, n - 1)
                /\ pc' = IF n = 1 THEN "build" ELSE pc
                /\ packages' = IF n = 1 THEN packages ELSE appendResolved(packages, top)
                /\ UNCHANGED <<cache, rerr, attempts, lookups, noURL>>
           ELSE IF ctxDone
           THEN /\ rerr' = "canceled"
                /\ UNCHANGED <<pc, cache, packages, frames, attempts, lookups, noURL>>
           ELSE LET d   == top.deps[top.idx]
                    pkg == ToPackage(d, d.Name)
                    key == <<pkg.Name, GetTarget(pkg)>>
                IN  IF pkg.Source.URL = ""
                    THEN /\ rerr' = "errNoURL"
                         /\ frames' = up(frames, d.Name)
                         /\ noURL' = [hit |-> TRUE, attempts |-> Len(attempts), depth |-> n]
                         /\ UNCHANGED <<pc, cache, packages, attempts, lookups>>
                    ELSE /\ attempts' = Append(attempts, d.Name)
                         /\ cache' = downloadPackage(pkg, cache)
                         /\ rerr' = downloadError(pkg)
                         /\ noURL' = noURL
                         /\ IF rerr' # "nil"
                            THEN /\ frames' = up(frames, d.Name)
                                 /\ pc' = pc
                                 /\ UNCHANGED <<packages, lookups>>
                            ELSE LET r == proceedWithManifest(up(frames, d.Name), packages,
                                                             pkg, cache'[key])
                                 IN  /\ frames' = r.frames
                                     /\ pc' = IF Len(r.frames) > MaxDepth
                                              THEN "overflow" ELSE pc
                                     /\ packages' = r.packages
                                     /\ lookups' =
                                            IF composeFile \in DOMAIN cache'[key].tree
                                            THEN Append(lookups, [name |-> d.Name,
                                                                  err |-> Lookup(cache'[key]).err])
                                            ELSE lookups
    /\ UNCHANGED <<inputs, entriesTree, entriesMap, items, i, merged, j, out, run, firstOut,
                   sig, ctxDone, atSignal, rootYaml,
                   fetchVars, extra>>

\* Builder.build returns ctx.Err() where it selects on ctx.Done(): in the baseline walk,
\* after EnsureDirExists of the merged directory, in the package loop and in the
\* materialization loop
BuildCancelled ==
    /\ ctxDone
    /\ pc \in {"build", "merge", "materialize"}
    /\ pc' = "cancelled"
    /\ out' = IF pc = "build" THEN [exists |-> TRUE, entries |-> out.entries] ELSE out
    /\ UNCHANGED <<inputs, cache, packages, entriesTree, entriesMap, items, i, merged, j, run,
                   firstOut, aux>>

\* the baseline walk, the context not cancelled
BuildBaseline == ~ctxDone /\ BaselinePass

\* one iteration of the package loop, the context not cancelled
BuildPackage == ~ctxDone /\ PackagePass

\* one iteration of the materialization loop, the context not cancelled
BuildEntry == ~ctxDone /\ out.exists /\ Materialize

\* one iteration of the materialization loop after the merged directory was removed:
\* createDir makes the directory and its parents again, os.Create and os.Symlink find no
\* parent directory
BuildEntryRemoved ==
    /\ pc = "materialize"
    /\ ~ctxDone
    /\ ~out.exists
    /\ j <= Len(entriesTree)
    /\ IF entriesTree[j].Entry = "dir"
       THEN /\ out' = [exists |-> TRUE, entries |-> MaterializeEntry(<<>>, entriesTree[j]).o]
            /\ pc' = IF j = Len(entriesTree) THEN "done" ELSE "materialize"
       ELSE /\ out' = out
            /\ pc' = "failed"
    /\ j' = j + 1
    /\ UNCHANGED <<inputs, cache, packages, entriesTree, entriesMap, items, i, merged, run,
                   firstOut, aux>>

\* the manifests of the runs the signal is sent to: no strategies; one package, one
\* package with a manifest of its own, or two packages
CancelManifests ==
    { <<Dep("pkga", "ua", <<>>)>>, <<Dep("pkgb", "ub", <<>>)>>, <<Dep("pkgd", "ud", <<>>)>>,
      <<Dep("pkgb", "ub", <<>>), Dep("pkgc", "uc", <<>>)>> }

InitCancel ==
    /\ baseTree = BaseTreeSmall
    /\ compose \in CancelManifests
    /\ skipNotVersioned = FALSE
    /\ head = NoRepo
    /\ pc = "start"
    /\ cache = <<>>
    /\ packages = <<>>
    /\ entriesTree = <<>>
    /\ entriesMap = <<>>
    /\ items = <<>>
    /\ i = 0
    /\ merged = <<>>
    /\ j = 0
    /\ out = Absent
    /\ run = 1
    /\ firstOut = Absent
    /\ NoSignal
    /\ NoFetch
    /\ NoResolve
    /\ NoExtra

NextCancel ==
    \/ SignalReceived
    \/ SignalCleanup
    \/ SignalCancel
    \/ RunInstall
    \/ ResolveStep
    \/ BuildCancelled
    \/ BuildBaseline
    \/ SortPackages
    \/ BuildPackage
    \/ BuildEntry
    \/ BuildEntryRemoved

SpecCancel == InitCancel /\ [][NextCancel]_vars

\* the loop of recursiveDownload, step by step, resolves what recursiveDownload returns
ResolveStepwise ==
    pc \in {"build", "sort", "merge", "materialize", "done"} =>
        LET r == recursiveDownload(compose, <<>>, <<>>, <<>>)
        IN  packages = r.packages /\ cache = r.cache

\* C11: when the signal was received during the resolution, after k packages were
\* downloaded, then at the return of RunInstall the packages directory holds at most the
\* k directories it held at the signal, and there is no merged directory and no merged
\* entry, whatever the interleaving of the signal goroutine and the main flow.
C11_CancelMidResolution ==
    (pc \in Returned /\ atSignal.pc = "resolve") =>
        /\ DOMAIN cache \subseteq atSignal.dirs
        /\ out = Absent

\* C12: when the signal was received while the builder was materializing and RunInstall
\* returns the cancellation error, every entry the merged directory held at the signal
\* is still there, unchanged: nothing is rolled back or removed.
C12_MaterializedFilesKept ==
    (pc = "cancelled" /\ atSignal.pc = "materialize") =>
        \A d \in DOMAIN atSignal.out.entries :
            d \in DOMAIN out.entries /\ out.entries[d] = atSignal.out.entries[d]

(***************************************************************************)
(* The keyring and the authentication chain of the git downloader          *)
(* (keyringWrapper in compose.go, tryDownload and fetchRemotes in git.go). *)
(* A URL is <<host, path>>; an error is named by a string, "nil" for none. *)
(***************************************************************************)
\* baseURL: scheme and host of the URL
baseURL(url) == <<url[1]>>

\* keyringWrapper.getForURL: the stored item, or in interactive mode the item asked for
\* with fillCredentials (tty is how the prompt ends) and added to the keyring
getForURL_AlwaysAsk(k, url, tty) ==
    IF k.broken THEN [kw |-> k, err |-> "malformed", asked |-> FALSE]
    ELSE IF url \in k.store THEN [kw |-> k, err |-> "nil", asked |-> FALSE]
    ELSE IF tty # "entered" THEN [kw |-> k, err |-> "prompt", asked |-> TRUE]
    ELSE [kw |-> [k EXCEPT !.store = @ \cup {url}, !.shouldUpdate = TRUE],
          err |-> "nil", asked |-> TRUE]

getForURL(k, url, tty) ==
    IF k.broken THEN [kw |-> k, err |-> "malformed", asked |-> FALSE]
    ELSE IF url \in k.store THEN [kw |-> k, err |-> "nil", asked |-> FALSE]
    ELSE IF ~k.interactive THEN [kw |-> k, err |-> "notFound", asked |-> FALSE]
    ELSE IF tty # "entered" THEN [kw |-> k, err |-> "prompt", asked |-> TRUE]
    ELSE [kw |-> [k EXCEPT !.store = @ \cup {url}, !.shouldUpdate = TRUE],
          err |-> "nil", asked |-> TRUE]

\* how a call of git.PlainCloneContext or of Remote.Fetch may end; a clone under a
\* cancelled context ends with the context's error
Attempts(kind) ==
    IF kind = "fetch" THEN {"nil", "upToDate", "authRequired", "authFailed", "other"}
    ELSE IF ctxDone THEN {"canceled"}
    ELSE {"nil", "authRequired", "authFailed", "noMatch", "other"}

\* what the chain does with the error of a step: "nil" leaves the chain without error,
\* "continue" goes to the next step, "return" leaves the chain with the error
\* authenticationModeNone
afterNone_AnyError(kind, err) == IF err = "nil" THEN "nil" ELSE "continue"

afterNone(kind, err) ==
    IF err = "nil" THEN "nil"
    ELSE IF err = "authRequired" THEN "continue"
    ELSE IF kind = "fetch" /\ err = "upToDate" THEN "nil"
    ELSE "return"

\* authenticationModeKeyringGlobal
afterKeyringGlobal(kind, err) ==
    IF err = "nil" THEN "nil"
    ELSE IF kind = "fetch" /\ err = "upToDate" THEN "nil"
    ELSE IF ~(err = "authFailed") \/ ~(err = "authRequired") THEN "return"
    ELSE "continue"

\* authenticationModeKeyring
afterKeyring(kind, err, interactive) ==
    IF err = "nil" THEN "nil"
    ELSE IF (err = "authFailed" \/ err = "authRequired") /\ interactive THEN "continue"
    ELSE IF kind = "fetch" /\ err = "upToDate" THEN "nil"
    ELSE "return"

\* authenticationModeManual
afterManual(kind, err) ==
    IF err = "nil" THEN "nil"
    ELSE IF kind = "fetch" /\ err = "upToDate" THEN "nil"
    ELSE "return"

\* a step of the chain ended with res: the chain goes on with the next step or is left
ChainStep(mode, res, next) ==
    /\ trail' = Append(trail, [mode |-> mode, res |-> res])
    /\ IF next = "continue"
       THEN /\ authMode' = mode + 1
            /\ UNCHANGED <<fpc, ferr>>
       ELSE /\ authMode' = 0
            /\ fpc' = IF op.kind = "fetch" THEN "fetched" ELSE "cloned"
            /\ ferr' = IF next = "nil" THEN "nil" ELSE res

\* the URL of the package the chain runs for
ChainURL == compose[dep].Source.URL

\* step 1: no credentials
AuthNone ==
    /\ fpc = "chain"
    /\ authMode = 1
    /\ \E err \in Attempts(op.kind) : ChainStep(1, err, afterNone(op.kind, err))
    /\ UNCHANGED <<installVars, cancelVars, resolveVars, extra, kw, saved, prompts, dep, disk, remoteTag, op,
                   tries, checked>>

\* step 2: the credentials stored for the base URL
AuthKeyringGlobal ==
    /\ fpc = "chain"
    /\ authMode = 2
    /\ IF kw.broken THEN ChainStep(2, "malformed", "return")
       ELSE IF baseURL(ChainURL) \notin kw.store THEN ChainStep(2, "notFound", "continue")
       ELSE \E err \in Attempts(op.kind) :
                ChainStep(2, err, afterKeyringGlobal(op.kind, err))
    /\ UNCHANGED <<installVars, cancelVars, resolveVars, extra, kw, saved, prompts, dep, disk, remoteTag, op,
                   tries, checked>>

\* step 3: the credentials of getForURL for the URL
AuthKeyring ==
    /\ fpc = "chain"
    /\ authMode = 3
    /\ \E tty \in {"entered", "failed"} :
          LET r == getForURL(kw, ChainURL, tty)
          IN  /\ kw' = r.kw
              /\ prompts' = IF r.asked
                            THEN Append(prompts, [mode |-> 3, url |-> ChainURL,
                                                  got |-> r.err = "nil"])
                            ELSE prompts
              /\ IF r.err # "nil" THEN ChainStep(3, r.err, "return")
                 ELSE \E err \in Attempts(op.kind) :
                          ChainStep(3, err, afterKeyring(op.kind, err, kw.interactive))
    /\ UNCHANGED <<installVars, cancelVars, resolveVars, extra, saved, dep, disk, remoteTag, op, tries, checked>>

\* step 4: the credentials fillCredentials asks for
AuthManual ==
    /\ fpc = "chain"
    /\ authMode = 4
    /\ \E tty \in {"entered", "failed"} :
          /\ prompts' = Append(prompts, [mode |-> 4, url |-> ChainURL, got |-> tty = "entered"])
          /\ IF tty # "entered" THEN ChainStep(4, "prompt", "return")
             ELSE \E err \in Attempts(op.kind) : ChainStep(4, err, afterManual(op.kind, err))
    /\ UNCHANGED <<installVars, cancelVars, resolveVars, extra, kw, saved, dep, disk, remoteTag, op, tries,
                   checked>>

(***************************************************************************)
(* DownloadManager.Download over a manifest whose packages have no         *)
(* manifest of their own, with the git downloader's EnsureLatest and       *)
(* Download (downloadManager.go, git.go).  A directory of the packages     *)
(* directory is a record: an empty directory, a repository with the short  *)
(* name of its HEAD, its tag and the commit of its HEAD, or what a failed  *)
(* or finished download left.                                              *)
(***************************************************************************)
\* a dependency of the given source type and ref, hosted on the one host
SrcDep(name, type, ref) ==
    [Name |-> name,
     Source |-> [Type |-> type, URL |-> <<"h", name>>, Ref |-> ref, Strategies |-> <<>>]]

GitType == "git"
HTTPType == "http"

\* the key of the package's directory: filepath.Join(targetDir, name, target)
DownloadPath(pkg) == <<pkg.Name, GetTarget(pkg)>>

EmptyDir == [kind |-> "empty", headName |-> "", tag |-> "", head |-> ""]
Partial  == [kind |-> "partial", headName |-> "", tag |-> "", head |-> ""]
Archive  == [kind |-> "archive", headName |-> "", tag |-> "", head |-> ""]
Repo(headName, tag, commit) ==
    [kind |-> "repo", headName |-> headName, tag |-> tag, head |-> commit]

\* r.ResolveRevision and r.CommitObject: the commit a tag hash stands for
Commit(tag) == IF tag = "t1" THEN "c1" ELSE IF tag = "t2" THEN "c2" ELSE ""

\* what a clone of the ref leaves: a tag is checked out detached, a branch by its name
Cloned(ref, pkg) ==
    IF ref = "tag" THEN Repo("HEAD", remoteTag, Commit(remoteTag))
    ELSE Repo(IF ref = "branch" THEN pkg.Source.Ref ELSE "main", "", "c0")

\* os.RemoveAll of a path of the packages directory: of one target, or of every target
\* of a package name
RemoveAll(d, path) ==
    [ key \in { x \in DOMAIN d : SubSeq(x, 1, Len(path)) # path } |-> d[key] ]

\* downloadPackage after a failed Download: the download path is removed, which for the
\* http type is the package path
downloadFailed_Keep(d, pkg) == d

downloadFailed(d, pkg) ==
    RemoveAll(d, IF pkg.Source.Type = HTTPType THEN <<pkg.Name>> ELSE DownloadPath(pkg))

\* ensureLatestTag once the fetch has returned err: the tag before and after the fetch,
\* the commit of the tag against HEAD
ensureLatestTag_TagOnly(dir, err) ==
    LET newTag == IF err = "nil" THEN remoteTag ELSE dir.tag
    IN  [called |-> TRUE, same |-> dir.tag = newTag, atHead |-> Commit(newTag) = dir.head,
         isLatest |-> err \in {"nil", "upToDate"} /\ dir.tag = newTag]

\* ensureLatestTag going on after a failed fetch as after one that brought nothing new
ensureLatestTag_FetchErrorIgnored(dir, err) ==
    [called |-> TRUE, same |-> TRUE, atHead |-> Commit(dir.tag) = dir.head,
     isLatest |-> err \notin {"nil", "upToDate"} \/ Commit(dir.tag) = dir.head]

ensureLatestTag(dir, err) ==
    LET newTag == IF err = "nil" THEN remoteTag ELSE dir.tag
    IN  [called |-> TRUE, same |-> dir.tag = newTag, atHead |-> Commit(newTag) = dir.head,
         isLatest |-> /\ err \in {"nil", "upToDate"}
                      /\ dir.tag = newTag
                      /\ Commit(newTag) = dir.head]

\* gitDownloader.Download after a call of tryDownload for a ref returned err: "loaded",
\* "continue" with the next ref, or "return" the error
afterTry_AnyError(ref, err) ==
    IF err = "nil" THEN "loaded" ELSE IF ref # "default" THEN "continue" ELSE "return"

afterTry(ref, err) ==
    IF err = "nil" THEN "loaded"
    ELSE IF ref # "default" /\ err = "noMatch" THEN "continue"
    ELSE "return"

\* the authentication chain is entered for an operation
StartChain(kind, ref) ==
    /\ fpc' = "chain"
    /\ op' = [kind |-> kind, ref |-> ref]
    /\ authMode' = 1
    /\ trail' = <<>>

\* the call downloader.Download(ctx, pkg, downloadPath) of downloadPackage, with the
\* packagePath recursiveDownload looks for the nested manifest in
Handed(pkg, downloadPath) ==
    [name |-> pkg.Name, type |-> pkg.Source.Type, dir |-> downloadPath,
     packagePath |-> <<pkg.Name, GetTarget(pkg)>>]

\* downloadPackage from os.RemoveAll(downloadPath) on, for a git package: Download
\* begins with the default branch, or with the ref as a tag
StartDownload(pkg) ==
    /\ disk' = RemoveAll(disk, DownloadPath(pkg))
    /\ handed' = Append(handed, Handed(pkg, DownloadPath(pkg)))
    /\ tries' = <<>>
    /\ StartChain("clone", IF pkg.Source.Ref = "" THEN "default" ELSE "tag")

\* Download up to the call of recursiveDownload: EnsureDirExists, Unlock
FetchBegin ==
    /\ fpc = "start"
    /\ fpc' = "loop"
    /\ dep' = 1
    /\ UNCHANGED <<installVars, cancelVars, resolveVars, extra, kw, saved, prompts, disk, remoteTag, op, authMode,
                   trail, tries, ferr, checked>>

\* one iteration of recursiveDownload up to the first call of the network: the select
\* on ctx.Done(), downloadPackage, EnsureLatest on what the download path holds
NextDependency ==
    /\ fpc = "loop"
    /\ IF dep > Len(compose)
       THEN /\ fpc' = "save"
            /\ ferr' = "nil"
            /\ UNCHANGED <<disk, op, authMode, trail, tries, dep, handed>>
       ELSE IF ctxDone
       THEN /\ fpc' = "returned"
            /\ ferr' = "canceled"
            /\ UNCHANGED <<disk, op, authMode, trail, tries, dep, handed>>
       ELSE LET pkg == ToPackage(compose[dep], compose[dep].Name)
                key == DownloadPath(pkg)
            IN  IF pkg.Source.Type = HTTPType
                THEN \E latest \in {"latest", "outdated", "error"} :
                        /\ fpc' = CASE latest = "latest" -> "loop"
                                    [] latest = "outdated" -> "http"
                                    [] OTHER -> "returned"
                        /\ ferr' = IF latest = "error" THEN "check" ELSE ferr
                        /\ dep' = IF latest = "latest" THEN dep + 1 ELSE dep
                        /\ disk' = IF latest = "outdated" THEN RemoveAll(disk, key) ELSE disk
                        /\ handed' = IF latest = "outdated"
                                      THEN Append(handed, Handed(pkg, <<pkg.Name>>))
                                      ELSE handed
                        /\ UNCHANGED <<op, authMode, trail, tries>>
                ELSE IF key \notin DOMAIN disk \/ disk[key].kind # "repo"
                THEN StartDownload(pkg) /\ UNCHANGED <<ferr, dep>>
                ELSE IF disk[key].headName = ""
                THEN /\ fpc' = "returned"
                     /\ ferr' = "head"
                     /\ UNCHANGED <<disk, op, authMode, trail, tries, dep, handed>>
                ELSE LET headName   == disk[key].headName
                         pkgRefName == IF GetTarget(pkg) = TargetLatest THEN headName
                                       ELSE pkg.Source.Ref
                     IN  IF headName = pkgRefName
                         THEN StartChain("fetch", "branch")
                              /\ UNCHANGED <<disk, tries, ferr, dep, handed>>
                         ELSE IF disk[key].tag = ""
                         THEN StartDownload(pkg) /\ UNCHANGED <<ferr, dep>>
                         ELSE StartChain("fetch", "tag")
                              /\ UNCHANGED <<disk, tries, ferr, dep, handed>>
    /\ UNCHANGED <<installVars, cancelVars, resolveVars, walkVars, strategyVars, releaseVars,
                   moreVars, kw, saved, prompts, remoteTag, checked>>

\* downloadPackage removing the download path of a package reported as latest
keepLatest_Removed(d, key, fetchedDir) == RemoveAll(d, key)

\* downloadPackage with a package reported as latest: `return nil`, the download path
\* stays as the check left it
keepLatest(d, key, fetchedDir) == [d EXCEPT ![key] = fetchedDir]

\* fetchRemotes has returned: the rest of ensureLatestBranch or ensureLatestTag, of
\* EnsureLatest and of downloadPackage
Fetched ==
    /\ fpc = "fetched"
    /\ LET pkg == ToPackage(compose[dep], compose[dep].Name)
           key == DownloadPath(pkg)
           fetchedDir == IF op.ref = "tag" /\ ferr = "nil"
                         THEN [disk[key] EXCEPT !.tag = remoteTag] ELSE disk[key]
       IN  \E sameBranch \in BOOLEAN :
             LET r == IF op.ref = "tag" THEN ensureLatestTag(disk[key], ferr)
                      ELSE [NotChecked EXCEPT !.isLatest = ferr \in {"nil", "upToDate"}
                                                           /\ sameBranch]
             IN  /\ checked' = r
                 /\ IF r.isLatest
                    THEN /\ fpc' = "loop"
                         /\ dep' = dep + 1
                         /\ disk' = keepLatest(disk, key, fetchedDir)
                         /\ op' = NoOp
                         /\ UNCHANGED <<authMode, trail, tries, handed>>
                    ELSE StartDownload(pkg) /\ UNCHANGED dep
    /\ UNCHANGED <<installVars, cancelVars, resolveVars, walkVars, strategyVars, releaseVars,
                   moreVars, kw, saved, prompts, remoteTag, ferr>>

\* tryDownload has returned: the rest of the loop over the refs in gitDownloader.Download,
\* of downloadPackage and of the iteration of recursiveDownload
Clone ==
    /\ fpc = "cloned"
    /\ LET pkg  == ToPackage(compose[dep], compose[dep].Name)
           key  == DownloadPath(pkg)
           next == afterTry(op.ref, ferr)
       IN  /\ tries' = Append(tries, [ref |-> op.ref, of |-> pkg.Source.Ref, err |-> ferr])
           /\ CASE next = "loaded" ->
                     /\ disk' = MapPut(disk, key, Cloned(op.ref, pkg))
                     /\ fpc' = "loop"
                     /\ dep' = dep + 1
                     /\ op' = NoOp
                     /\ UNCHANGED <<authMode, trail, ferr>>
                [] next = "continue" /\ op.ref = "tag" ->
                     /\ StartChain("clone", "branch")
                     /\ UNCHANGED <<disk, dep, ferr>>
                [] OTHER ->
                     /\ \E left \in {disk, MapPut(disk, key, Partial)} :
                            disk' = downloadFailed(left, pkg)
                     /\ fpc' = "returned"
                     /\ ferr' = IF next = "continue" THEN "refNotFound" ELSE ferr
                     /\ UNCHANGED <<dep, op, authMode, trail>>
    /\ UNCHANGED <<installVars, cancelVars, resolveVars, extra, kw, saved, prompts, remoteTag, checked>>

\* the Download of the http downloader: the archive fetched and unpacked below the
\* package path, or an error and whatever was written until then
HttpDownload ==
    /\ fpc = "http"
    /\ LET pkg == ToPackage(compose[dep], compose[dep].Name)
           key == DownloadPath(pkg)
       IN  \E err \in IF ctxDone THEN {"canceled"} ELSE {"nil", "other"} :
              IF err = "nil"
              THEN /\ disk' = MapPut(disk, key, Archive)
                   /\ fpc' = "loop"
                   /\ dep' = dep + 1
                   /\ ferr' = ferr
              ELSE /\ \E left \in {disk, MapPut(disk, key, Partial)} :
                          disk' = downloadFailed(left, pkg)
                   /\ fpc' = "returned"
                   /\ ferr' = err
                   /\ dep' = dep
    /\ UNCHANGED <<installVars, cancelVars, resolveVars, extra, kw, saved, prompts, remoteTag, op, authMode, trail,
                   tries, checked>>

\* Download after recursiveDownload returned without error: the keyring is saved when
\* shouldUpdate is set
Save_Always ==
    /\ fpc = "save"
    /\ saved' = Append(saved, kw.store)
    /\ fpc' = "returned"
    /\ UNCHANGED <<installVars, cancelVars, resolveVars, extra, kw, prompts, dep, disk, remoteTag, op, authMode,
                   trail, tries, ferr, checked>>

Save ==
    /\ fpc = "save"
    /\ saved' = IF kw.shouldUpdate THEN Append(saved, kw.store) ELSE saved
    /\ fpc' = "returned"
    /\ UNCHANGED <<installVars, cancelVars, resolveVars, extra, kw, prompts, dep, disk, remoteTag, op, authMode,
                   trail, tries, ferr, checked>>

\* cancel() of the context while Download runs
FetchCancel ==
    /\ fpc \notin {"", "returned"}
    /\ ~ctxDone
    /\ ctxDone' = TRUE
    /\ UNCHANGED <<installVars, sig, frames, atSignal, fetchVars, resolveVars, extra>>

\* the manifests downloaded: a git package without ref, one with a ref, an http package
FetchManifests ==
    { <<SrcDep("pg", GitType, "")>>, <<SrcDep("pt", GitType, "v1")>>,
      <<SrcDep("ph", HTTPType, "")>>,
      <<SrcDep("pt", GitType, "v1"), SrcDep("pg", GitType, "")>> }

\* what a download path may hold from an earlier run
CachedDirs ==
    { EmptyDir, Repo("HEAD", "t1", "c1"), Repo("HEAD", "t1", "c2"), Repo("v1", "", "c1"),
      Repo("main", "", "c0"), Repo("", "", "") }

\* the keyrings: the items stored for the host and for the URLs of the manifest
Keyrings(deps) ==
    LET urls == { deps[k].Source.URL : k \in 1..Len(deps) }
    IN  { [interactive |-> b, shouldUpdate |-> FALSE, store |-> st, broken |-> FALSE] :
            b \in BOOLEAN, st \in {{}, {<<"h">>}, urls, urls \cup {<<"h">>}} }
        \cup { [NoKeyring EXCEPT !.broken = TRUE] }

InitFetch ==
    /\ baseTree = BaseTreeSmall
    /\ compose \in FetchManifests
    /\ skipNotVersioned = FALSE
    /\ head = NoRepo
    /\ pc = "start"
    /\ cache = <<>>
    /\ packages = <<>>
    /\ entriesTree = <<>>
    /\ entriesMap = <<>>
    /\ items = <<>>
    /\ i = 0
    /\ merged = <<>>
    /\ j = 0
    /\ out = Absent
    /\ run = 1
    /\ firstOut = Absent
    /\ NoSignal
    /\ NoResolve
    /\ NoExtra
    /\ kw \in Keyrings(compose)
    /\ saved = <<>>
    /\ prompts = <<>>
    /\ fpc = "start"
    /\ dep = 0
    /\ disk \in {<<>>} \cup
                { [ key \in { DownloadPath(ToPackage(compose[k], compose[k].Name)) :
                              k \in 1..Len(compose) } |-> d ] : d \in CachedDirs }
    /\ remoteTag \in {"t1", "t2"}
    /\ op = NoOp
    /\ authMode = 0
    /\ trail = <<>>
    /\ tries = <<>>
    /\ ferr = ""
    /\ checked = NotChecked

NextFetch ==
    \/ FetchBegin
    \/ NextDependency
    \/ AuthNone
    \/ AuthKeyringGlobal
    \/ AuthKeyring
    \/ AuthManual
    \/ Fetched
    \/ Clone
    \/ HttpDownload
    \/ Save
    \/ FetchCancel

SpecFetch == InitFetch /\ [][NextFetch]_vars

(***************************************************************************)
(* Properties of the download.                                             *)
(***************************************************************************)
\* how a step ends when the chain goes on after it: the remote asks for authentication
\* or refuses the credentials, or the keyring holds no item for the step
Advancing == {"authRequired", "authFailed", "notFound"}

\* C13: within one run of the chain the k-th step attempted is the k-th of anonymous,
\* host-level, exact-URL, manual, so each is attempted at most once and in this order;
\* every step before the last one attempted ended with an authentication-required or
\* authorization-failed error or was skipped for lack of a stored item; a step that ended
\* with any other error is the last one, and the chain has returned that error.
C13_ChainOrder ==
    /\ Len(trail) <= 4
    /\ \A p \in 1..Len(trail) : trail[p].mode = p
    /\ \A p \in 1..(Len(trail) - 1) : trail[p].res \in Advancing
    /\ fpc = "chain" => authMode = Len(trail) + 1
    /\ \A p \in 1..Len(trail) :
          trail[p].res \notin Advancing \cup {"nil", "upToDate"} =>
              /\ p = Len(trail)
              /\ fpc # "chain"
              /\ fpc \in {"cloned", "fetched"} => ferr = trail[p].res

\* C13 witness: a clone went through all four steps, the anonymous one asked for
\* authentication, no host-level item was stored, the exact-URL credentials were refused
\* and the manual ones met another error, which the chain returned
C13_Witness ==
    /\ fpc = "cloned"
    /\ Len(trail) = 4
    /\ trail[1].res = "authRequired"
    /\ trail[2].res = "notFound"
    /\ trail[3].res = "authFailed"
    /\ trail[4].res = "other"
    /\ ferr = "other"

\* C14: a step 1, 2 or 3 whose clone or fetch ended with an authentication-required or
\* authorization-failed error (step 3: in interactive mode) is followed by the next
\* step of the chain; the chain does not return that error.
C14_AuthErrorAdvances ==
    \A p \in 1..Len(trail) :
        ( /\ trail[p].mode \in 1..3
          /\ trail[p].res \in {"authRequired", "authFailed"}
          /\ trail[p].mode = 3 => kw.interactive ) =>
            \/ p < Len(trail)
            \/ fpc = "chain" /\ authMode = p + 1

\* C15: with interactive mode disabled fillCredentials is never called, the manual step
\* is never attempted, and an exact-URL step that finds no stored item or whose stored
\* item is refused is the last step: the chain returns its error.
C15_NoPromptUnlessInteractive ==
    ~kw.interactive =>
        /\ prompts = <<>>
        /\ authMode # 4
        /\ \A p \in 1..Len(trail) :
              /\ trail[p].mode # 4
              /\ (trail[p].mode = 3 /\ trail[p].res \in Advancing) =>
                    /\ p = Len(trail)
                    /\ fpc # "chain"
                    /\ fpc \in {"cloned", "fetched"} => ferr = trail[p].res

\* C15 witness: not interactive, the clone reached the exact-URL step, where no item was
\* stored, and the chain returned the keyring's error without a prompt
C15_Witness ==
    /\ ~kw.interactive
    /\ fpc = "cloned"
    /\ Len(trail) = 3
    /\ trail[3].res = "notFound"
    /\ ferr = "notFound"
    /\ prompts = <<>>

\* C16: the keyring is saved at most once in a run; when it was saved, Download has
\* returned, recursiveDownload had gone through the whole manifest without error, and
\* a credential asked for in this run is among the saved items; a Download that returned
\* an error, the cancellation error included, has saved nothing.
C16_SavedOnceAtEnd ==
    /\ Len(saved) <= 1
    /\ saved # <<>> =>
          /\ fpc = "returned"
          /\ dep = Len(compose) + 1
          /\ ferr = "nil"
          /\ \E p \in 1..Len(prompts) : prompts[p].got /\ prompts[p].url \in saved[1]
    /\ (fpc = "returned" /\ ferr # "nil") => saved = <<>>

\* C16 witness: a run of two packages asked for a credential and saved the keyring once,
\* after the second package
C16_Witness ==
    /\ Len(saved) = 1
    /\ Len(compose) = 2
    /\ fpc = "returned"
    /\ \E p \in 1..Len(prompts) : prompts[p].got /\ prompts[p].url = compose[1].Source.URL

\* C17: every credential fillCredentials has got in the run, in the exact-URL step or in
\* the manual step, is an item of the in-memory keyring, and the keyring is marked for
\* the save at the end of the resolution.
C17_CapturedIsQueued ==
    \A p \in 1..Len(prompts) :
        prompts[p].got => (prompts[p].url \in kw.store /\ kw.shouldUpdate)

\* C18: a Download calls tryDownload at most twice.  With an empty ref it calls it once,
\* for the default branch.  With a ref the first call is for the tag; a second call is
\* made only after the first ended with no-matching-ref, and it is for the branch; a
\* tag call that ended with no-matching-ref is followed by the branch call; any other
\* error of a call is returned as it is, and no-matching-ref for tag and branch makes
\* the error that the ref was not found.
C18_RefResolution ==
    /\ Len(tries) <= 2
    /\ \A p \in 1..Len(tries) :
          /\ tries[p].ref = "default" <=> tries[p].of = ""
          /\ tries[p].ref = (IF tries[p].of = "" THEN "default"
                             ELSE IF p = 1 THEN "tag" ELSE "branch")
          /\ p = 2 => tries[1].err = "noMatch"
          /\ (tries[p].err # "nil" /\ ~(tries[p].ref # "default" /\ tries[p].err = "noMatch")) =>
                /\ p = Len(tries)
                /\ fpc = "returned"
                /\ ferr = tries[p].err
          /\ (tries[p].ref = "tag" /\ tries[p].err = "noMatch") =>
                \/ Len(tries) = 2
                \/ fpc \in {"chain", "cloned"} /\ op = [kind |-> "clone", ref |-> "branch"]
          /\ (tries[p].ref = "branch" /\ tries[p].err = "noMatch") =>
                fpc = "returned" /\ ferr = "refNotFound"

\* C18 witness: the ref was no tag of the remote, and the clone of it as a branch loaded
C18_Witness ==
    /\ Len(tries) = 2
    /\ tries[1] = [ref |-> "tag", of |-> "v1", err |-> "noMatch"]
    /\ tries[2] = [ref |-> "branch", of |-> "v1", err |-> "nil"]
    /\ DownloadPath(ToPackage(compose[1], "pt")) \in DOMAIN disk

\* the directory EnsureLatest looks at
CheckedPath == DownloadPath(ToPackage(compose[dep], compose[dep].Name))

\* C19: when the fetch of the tag has returned, EnsureLatest answers true only if the
\* fetch did not fail, the tag has the hash it had before the fetch and the commit of the
\* tag is the commit of HEAD; with a changed tag or another commit at HEAD it answers
\* false; after the answer false downloadPackage has removed the directory and the
\* package is cloned again, after the answer true the directory is kept.
C19_TagLatest ==
    [][ (fpc = "fetched" /\ fpc' # "fetched" /\ op.ref = "tag") =>
          LET dir    == disk[CheckedPath]
              newTag == IF ferr = "nil" THEN remoteTag ELSE dir.tag
          IN  /\ checked'.isLatest =>
                    /\ ferr \in {"nil", "upToDate"}
                    /\ dir.tag = newTag
                    /\ Commit(newTag) = dir.head
              /\ (dir.tag # newTag \/ Commit(newTag) # dir.head) => ~checked'.isLatest
              /\ ~checked'.isLatest =>
                    /\ CheckedPath \notin DOMAIN disk'
                    /\ fpc' = "chain"
                    /\ op' = [kind |-> "clone", ref |-> "tag"]
                    /\ tries' = <<>>
              /\ checked'.isLatest =>
                    /\ CheckedPath \in DOMAIN disk'
                    /\ disk'[CheckedPath] = dir
                    /\ fpc' = "loop"
      ]_vars

\* C19 witness: the fetched tag is unchanged but HEAD is at another commit:
\* ensureLatestTag answered false, the directory is gone and the clone of the tag begins
C19_Witness ==
    /\ checked.called
    /\ checked.same
    /\ ~checked.atHead
    /\ ~checked.isLatest
    /\ fpc = "chain"
    /\ op = [kind |-> "clone", ref |-> "tag"]
    /\ trail = <<>>
    /\ CheckedPath \notin DOMAIN disk

CreateComposer ==
    /\ pc = "create"
    /\ LET r == Lookup([tree |-> baseTree, manifest |-> rootYaml])
       IN  /\ rerr' = r.err
           /\ pc' = IF r.err = "nil" THEN "start" ELSE "failed"
    /\ UNCHANGED <<inputs, cache, packages, entriesTree, entriesMap, items, i, merged, j, out,
                   run, firstOut, cancelVars, fetchVars, extra, rootYaml, attempts, lookups,
                   noURL>>

\* pkgc at the ref v1, with a package strategy and a local one: the nested manifests
\* of pkga, pkge and pkgu name pkgc without ref and without strategies
PinnedC ==
    [Dep("pkgc", "uc", <<Strat(StrategyOverwriteLocal, <<cfgName \o Sep>>),
                         Strat(StrategyRemoveExtraLocal, <<generatedName \o Sep>>)>>)
        EXCEPT !.Source.Ref = "v1"]

\* the dependencies the root manifests of the resolved runs are written from: packages
\* with and without a manifest of their own, one whose manifest holds a dependency without
\* URL, one whose manifest is no YAML, one whose manifest names a remote that cannot be
\* reached, that remote itself, a dependency without URL, pkgc pinned, a package
\* that a dependency of its own dependency shares the name with, a package of the
\* name of the synthetic root, and a package whose dependency depends on it
ResolveDeps ==
    { Dep("pkga", "ua", <<>>), Dep("pkgb", "ub", <<>>), Dep("pkgc", "uc", <<>>),
      Dep("pkge", "ue", <<>>), Dep("pkgm", "um", <<>>), Dep("pkgu", "un", <<>>),
      Dep("pkgx", "ux", <<>>), Dep("pkgn", "", <<>>), PinnedC,
      Dep("pkgp", "up", <<>>), Dep(DependencyRoot, "ub", <<>>), Dep("pkgr", "ur", <<>>) }

\* the longest root manifest of a resolved run
MaxResolveDeps == 2

RECURSIVE ResolveLists(_)
ResolveLists(n) ==
    IF n = 0 THEN { <<>> }
    ELSE LET shorter == ResolveLists(n - 1)
         IN  shorter \cup
             { Append(l, d) : l \in { x \in shorter : Len(x) = n - 1 },
                              d \in ResolveDeps }

ResolveManifests == { l \in ResolveLists(MaxResolveDeps) : UniqueNames(l) }

InitResolve ==
    /\ baseTree \in BaseTrees
    /\ \/ compose \in ResolveManifests /\ rootYaml = Manifest(compose)
       \/ compose = <<>> /\ rootYaml = Malformed
    /\ skipNotVersioned = FALSE
    /\ head = NoRepo
    /\ pc = "create"
    /\ cache = <<>>
    /\ packages = <<>>
    /\ entriesTree = <<>>
    /\ entriesMap = <<>>
    /\ items = <<>>
    /\ i = 0
    /\ merged = <<>>
    /\ j = 0
    /\ out = Absent
    /\ run = 1
    /\ firstOut = Absent
    /\ NoSignal
    /\ NoFetch
    /\ rerr = "nil"
    /\ attempts = <<>>
    /\ lookups = <<>>
    /\ noURL = NotMet
    /\ NoExtra

NextResolve ==
    \/ CreateComposer
    \/ RunInstall
    \/ ResolveStep
    \/ BuildBaseline
    \/ SortPackages
    \/ BuildPackage
    \/ BuildEntry

SpecResolve == InitResolve /\ [][NextResolve]_vars

\* the builder has not run: no entry, no sorted package, no merged directory
BuilderNotRun ==
    /\ entriesTree = <<>>
    /\ items = <<>>
    /\ merged = <<>>
    /\ out = Absent

\* C21: once recursiveDownload has met a dependency without URL, downloadPackage is called
\* for no further dependency, the error being returned stays errNoURL at every level
\* of the recursion up to the return of RunInstall, and the builder never runs.
C21_MissingURLAborts ==
    noURL.hit =>
        /\ Len(attempts) = noURL.attempts
        /\ rerr = "errNoURL"
        /\ pc \in {"resolve", "failed"}
        /\ pc = "resolve" <=> Len(frames) > 0
        /\ BuilderNotRun

\* a dependency without URL met two calls deep, after a download, and RunInstall returned
C21_Witness ==
    /\ noURL.hit
    /\ noURL.depth = 2
    /\ noURL.attempts > 0
    /\ pc = "failed"
    /\ rerr = "errNoURL"

\* a manifest file that is present failed YAML parsing: the root manifest, or the manifest
\* of a downloaded package
ParseFailed ==
    \/ rootYaml.malformed /\ pc # "create"
    \/ \E k \in 1..Len(lookups) : lookups[k].err = "parse"

\* C22: when a present manifest failed YAML parsing, at the root or in a downloaded
\* package, the run never goes on to the builder and never completes; when it has
\* returned, it has returned the parse error.
C22_MalformedManifestFatal ==
    ParseFailed =>
        /\ pc \in {"resolve", "failed"}
        /\ pc = "failed" => rerr = "parse"

\* the names of the dependencies a manifest declares, in order
DeclaredNames(deps) == [ k \in 1..Len(deps) |-> deps[k].Name ]

\* the names of the flat package list
ListedNames == { packages[k].Name : k \in 1..Len(packages) }

\* the directory of a package of the list is in the packages directory
Downloaded(p) == <<p.Name, GetTarget(p)>> \in DOMAIN cache

\* the dependencies the manifest in the package's directory declares, none when there is
\* no manifest that parses
ManifestNames(p) ==
    LET dir == cache[<<p.Name, GetTarget(p)>>]
    IN  IF HasManifest(dir) THEN DeclaredNames(Lookup(dir).cfg) ELSE <<>>

\* C30: at every moment of the resolution and at its return, with or without an error,
\* every package of the flat list was downloaded, records exactly the dependencies its
\* own manifest declares, and each of these stands before it in the list.
C30_PostOrder ==
    \A k \in 1..Len(packages) :
        /\ Downloaded(packages[k])
        /\ packages[k].Dependencies = ManifestNames(packages[k])
        /\ \A d \in 1..Len(packages[k].Dependencies) :
               \E m \in 1..(k - 1) : packages[m].Name = packages[k].Dependencies[d]

\* the resolution failed after a package with dependencies was appended, and a package
\* that was downloaded but whose manifest could not be resolved is not in the list
C30_Witness ==
    /\ pc = "failed"
    /\ \E k \in 1..Len(packages) : packages[k].Dependencies # <<>>
    /\ \E a \in 1..Len(attempts) :
          /\ attempts[a] \notin ListedNames
          /\ <<attempts[a], TargetLatest>> \in DOMAIN cache

(***************************************************************************)
(* Builder.build on a working directory without dependencies, with the     *)
(* skip-unversioned option: the local trees hold a file three levels deep, *)
(* a .git directory and a .gitignore; HEAD's tree holds any of the files,  *)
(* and one that is no longer in the working directory.                     *)
(***************************************************************************)
deepPath == JoinSegs(<<subName, cfgName, aYaml>>)
gonePath == JoinSegs(<<cfgName, yYaml>>)

\* a local tree with a repository directory
BaseTreeDeep ==
    MkTree({ <<composeFile, "file">>,
             <<JoinSegs(<<gitPrefix, <<"h">>>>), "file">>,
             <<gitignoreName, "file">>,
             <<yYaml, "file">>,
             <<cfgAPath, "file">>,
             <<deepPath, "file">> })

\* the files HEAD's tree may hold
Committable == { gitignoreName, yYaml, cfgAPath, deepPath, gonePath }

\* the outcomes of reading the repository: git.PlainOpen or repo.Head fails, or HEAD's
\* tree holds some of the files
CommittedHeads == { NoRepo } \cup { [repo |-> TRUE, files |-> S] : S \in SUBSET Committable }

InitBaseline ==
    /\ baseTree \in { BaseTreeDeep, BaseTreeSmall }
    /\ compose = <<>>
    /\ skipNotVersioned \in BOOLEAN
    /\ head \in CommittedHeads
    /\ pc = "build"
    /\ cache = <<>>
    /\ packages = <<>>
    /\ entriesTree = <<>>
    /\ entriesMap = <<>>
    /\ items = <<>>
    /\ i = 0
    /\ merged = <<>>
    /\ j = 0
    /\ out = Absent
    /\ run = 1
    /\ firstOut = Absent
    /\ NoSignal
    /\ NoFetch
    /\ NoResolve
    /\ NoExtra

NextBaseline ==
    \/ BaselinePass
    \/ SortPackages
    \/ PackagePass
    \/ Materialize

SpecBaseline == InitBaseline /\ [][NextBaseline]_vars

\* the paths of a commit tree: its files and every directory above one
CommitTree(files) == files \cup UNION { Ancestors(f) : f \in files }

\* C23: once build has read the repository, the versioned map holds every file of HEAD's
\* tree and every directory that has a committed file below it, at any depth.
C23_VersionedMapComplete ==
    (pc # "build" /\ checkVersioned) => CommitTree(head.files) \subseteq versionedMap

\* the source paths of the entries that come from the local tree, the root aside
BaselinePaths ==
    { entriesTree[k].SrcPath : k \in { n \in 1..Len(entriesTree) :
                                         entriesTree[n].From = "domain repo" } } \ {Dot}

-----------------------------------------------------------------------------
\* The model:release action: Release.Execute of actions/release/release.go,
\* the git operations of internal/release/git.go and the versions of
\* internal/release/version.go.  A tag is the version it names: a record of
\* Major, Minor and Patch (the v prefix and the prerelease part are left out).

Version(major, minor, patch) == [Major |-> major, Minor |-> minor, Patch |-> patch]

\* Version.Compare: -1, 0 or 1
Compare(v, other) ==
    IF v.Major # other.Major THEN (IF v.Major > other.Major THEN 1 ELSE -1)
    ELSE IF v.Minor # other.Minor THEN (IF v.Minor > other.Minor THEN 1 ELSE -1)
    ELSE IF v.Patch # other.Patch THEN (IF v.Patch > other.Patch THEN 1 ELSE -1)
    ELSE 0

\* Version.Bump
Bump(v, bumpType) ==
    CASE bumpType = "major" -> Version(v.Major + 1, 0, 0)
      [] bumpType = "minor" -> Version(v.Major, v.Minor + 1, 0)
      [] bumpType = "patch" -> Version(v.Major, v.Minor, v.Patch + 1)
      [] OTHER -> v

IsBumpType(str) == str \in {"patch", "minor", "major"}

InitialVersion == Version(0, 1, 0)

\* GitOps.GetLatestSemverTag: the highest of the local tags, NoVersion without tags
GetLatestSemverTag(tags) ==
    IF tags = {} THEN NoVersion
    ELSE CHOOSE v \in tags : \A other \in tags : Compare(v, other) >= 0

\* GitOps.FetchTags, git fetch --tags origin: the tags of origin become local tags
FetchTags(tags, origin) == tags \cup origin

\* the new version Execute determines from the --version option and the latest tag
determineVersion(opts, latestVersion) ==
    IF opts.Version = "" THEN
        IF latestVersion = NoVersion THEN InitialVersion ELSE Bump(latestVersion, "patch")
    ELSE IF IsBumpType(opts.Version) THEN
        IF latestVersion = NoVersion THEN InitialVersion ELSE Bump(latestVersion, opts.Version)
    ELSE opts.Explicit

\* Execute returns
ReleaseReturn(err) ==
    /\ rpc' = "returned"
    /\ relErr' = err

\* Execute up to the fetch of the tags: the branch must be master or main, and
\* with a remote the tags are fetched; a failed fetch is only warned about
ReleaseFetch ==
    /\ rpc = "begin"
    /\ IF ropts.branch \notin {"master", "main"} THEN
           /\ ReleaseReturn("branch")
           /\ UNCHANGED localTags
       ELSE
           /\ rpc' = "fetched"
           /\ localTags' = IF ropts.hasRemote /\ ropts.fails # "fetch"
                           THEN FetchTags(localTags, originTags) ELSE localTags
           /\ UNCHANGED relErr
    /\ UNCHANGED <<ropts, originTags, forge, newVersion, tagsBefore>>
    /\ UNCHANGED <<installVars, cancelVars, fetchVars, resolveVars, walkVars, strategyVars,
                   otherVars>>

\* Execute from the latest tag to the dry-run stop: nothing to release without
\* changes since the latest tag, the new version, and the return of a dry run
ReleasePlan ==
    /\ rpc = "fetched"
    /\ LET latestVersion == GetLatestSemverTag(localTags)
       IN  IF ~ropts.changes /\ latestVersion # NoVersion THEN
               /\ ReleaseReturn("nil")
               /\ UNCHANGED newVersion
           ELSE IF ropts.Version = "invalid" THEN
               /\ ReleaseReturn("version")
               /\ UNCHANGED newVersion
           ELSE
               /\ newVersion' = determineVersion(ropts, latestVersion)
               /\ IF ropts.DryRun THEN ReleaseReturn("nil")
                  ELSE rpc' = "tag" /\ UNCHANGED relErr
    /\ UNCHANGED <<ropts, localTags, originTags, forge, tagsBefore>>
    /\ UNCHANGED <<installVars, cancelVars, fetchVars, resolveVars, walkVars, strategyVars,
                   otherVars>>

\* GitOps.CreateTag, git tag -f -a
ReleaseCreateTag ==
    /\ rpc = "tag"
    /\ IF ropts.fails = "tag" THEN
           /\ ReleaseReturn("tag")
           /\ UNCHANGED localTags
       ELSE
           /\ localTags' = localTags \cup {newVersion}
           /\ rpc' = "push"
           /\ UNCHANGED relErr
    /\ UNCHANGED <<ropts, originTags, forge, newVersion, tagsBefore>>
    /\ UNCHANGED <<installVars, cancelVars, fetchVars, resolveVars, walkVars, strategyVars,
                   otherVars>>

\* GitOps.PushTag, git push origin tag, and the return of the tag-only mode
ReleasePushTag ==
    /\ rpc = "push"
    /\ IF ropts.fails = "push" \/ ~ropts.hasRemote THEN
           /\ ReleaseReturn("push")
           /\ UNCHANGED originTags
       ELSE
           /\ originTags' = originTags \cup {newVersion}
           /\ IF ropts.TagOnly THEN ReleaseReturn("nil")
              ELSE rpc' = "forge" /\ UNCHANGED relErr
    /\ UNCHANGED <<ropts, localTags, forge, newVersion, tagsBefore>>
    /\ UNCHANGED <<installVars, cancelVars, fetchVars, resolveVars, walkVars, strategyVars,
                   otherVars>>

\* the forge client, its token and Forge.CreateRelease
ReleaseCreate ==
    /\ rpc = "forge"
    /\ IF ropts.fails = "forge" THEN
           /\ ReleaseReturn("forge")
           /\ UNCHANGED forge
       ELSE
           /\ forge' = [forge EXCEPT !.releases = @ \cup {newVersion}]
           /\ rpc' = "upload"
           /\ UNCHANGED relErr
    /\ UNCHANGED <<ropts, localTags, originTags, newVersion, tagsBefore>>
    /\ UNCHANGED <<installVars, cancelVars, fetchVars, resolveVars, walkVars, strategyVars,
                   otherVars>>

\* findImage and Forge.UploadAsset
ReleaseUpload ==
    /\ rpc = "upload"
    /\ IF ~ropts.image THEN
           /\ ReleaseReturn("nil")
           /\ UNCHANGED forge
       ELSE IF ropts.fails = "upload" THEN
           /\ ReleaseReturn("upload")
           /\ UNCHANGED forge
       ELSE
           /\ forge' = [forge EXCEPT !.assets = @ \cup {newVersion}]
           /\ ReleaseReturn("nil")
    /\ UNCHANGED <<ropts, localTags, originTags, newVersion, tagsBefore>>
    /\ UNCHANGED <<installVars, cancelVars, fetchVars, resolveVars, walkVars, strategyVars,
                   otherVars>>

\* the tags a repository or its origin holds when the release begins
TagUniverse == {Version(0, 1, 0), Version(0, 1, 1)}

\* the options of model:release and what the run meets
ReleaseOptions ==
    [DryRun : BOOLEAN, TagOnly : BOOLEAN, Version : {"", "minor", "explicit", "invalid"},
     Explicit : {Version(1, 0, 0)}, branch : {"main", "feature"}, hasRemote : BOOLEAN,
     fails : {"none", "fetch", "tag", "push", "forge", "upload"},
     changes : BOOLEAN, image : BOOLEAN]

InitRelease ==
    /\ baseTree = BaseTreeSmall
    /\ compose = <<>>
    /\ skipNotVersioned = FALSE
    /\ head = NoRepo
    /\ pc = "release"
    /\ cache = <<>>
    /\ packages = <<>>
    /\ entriesTree = <<>>
    /\ entriesMap = <<>>
    /\ items = <<>>
    /\ i = 0
    /\ merged = <<>>
    /\ j = 0
    /\ out = Absent
    /\ run = 1
    /\ firstOut = Absent
    /\ NoSignal
    /\ NoFetch
    /\ NoResolve
    /\ NoWalk
    /\ NoStrategy
    /\ NoOther
    /\ rpc = "begin"
    /\ ropts \in ReleaseOptions
    /\ localTags \in SUBSET TagUniverse
    /\ originTags \in SUBSET TagUniverse
    /\ forge = NoReleases
    /\ newVersion = NoVersion
    /\ tagsBefore = [local |-> localTags, origin |-> originTags]
    /\ relErr = "nil"

NextRelease ==
    \/ ReleaseFetch
    \/ ReleasePlan
    \/ ReleaseCreateTag
    \/ ReleasePushTag
    \/ ReleaseCreate
    \/ ReleaseUpload

SpecRelease == InitRelease /\ [][NextRelease]_vars

\* a dry run returned
DryRunReturned == rpc = "returned" /\ ropts.DryRun

\* C25: a run of model:release with --dry-run changes nothing: when it has
\* returned, the tags of the local repository and of origin are the ones the
\* run began with, and the forge has no release and no asset
C25_DryRunChangesNothing ==
    DryRunReturned =>
        /\ localTags = tagsBefore.local
        /\ originTags = tagsBefore.origin
        /\ forge = NoReleases


-----------------------------------------------------------------------------
\* The callback of the package walk on one entry (builder.go:395-413): one
\* package with its declared strategies, the entry list and the map as the
\* baseline left them, and one entry of the package.

aPath == <<"a">>
bPath == <<"b">>
axPath == JoinSegs(<<aPath, <<"x">>>>)
bxPath == JoinSegs(<<bPath, <<"x">>>>)
srcPlatform == JoinSegs(<<srcName, platformName>>)

\* the strategies a package may declare: every name, each on one path
DeclarableStrategies ==
    { Strat(name, <<path>>) :
        name \in {StrategyOverwriteLocal, StrategyFilterPackage, StrategyIgnoreExtraPackage,
                  StrategyRemoveExtraLocal},
        path \in {aPath, bPath, srcPlatform} }

\* the longest strategy list of a package
MaxStrategies == 2

StrategyLists == UNION { [1..n -> DeclarableStrategies] : n \in 0..MaxStrategies }

\* the entries the walk of the package may hand to the callback: path and kind
WalkedEntries ==
    { <<axPath, "file">>, <<bxPath, "file">>, <<aPath, "dir">>, <<bPath, "dir">>,
      <<platformName, "dir">>, <<srcName, "dir">>, <<srcPlatform, "dir">>,
      <<JoinSegs(<<srcPlatform, <<"r">>>>), "file">> }

\* the entry the baseline walk makes of a local path
LocalEntry(path, kind) ==
    [Prefix |-> platformDir, SrcPath |-> path, DstPath |-> path, Entry |-> kind,
     From |-> "domain repo"]

InitStrategy ==
    /\ baseTree = BaseTreeSmall
    /\ compose = <<>>
    /\ skipNotVersioned = FALSE
    /\ head = NoRepo
    /\ pc = "entry"
    /\ cache = <<>>
    /\ \E strategies \in StrategyLists :
           packages = <<ToPackage(Dep("pkgs", "us", strategies), "pkgs")>>
    /\ declared = retrieveStrategies(packages, <<>>, <<>>).ps["pkgs"]
    /\ \E e \in WalkedEntries, occupied \in BOOLEAN :
           /\ incoming = [Prefix |-> PkgPath("pkgs", TargetLatest), SrcPath |-> e[1],
                          DstPath |-> adjustDestinationPath(e[1], TRUE), Entry |-> e[2],
                          From |-> "pkgs"]
           /\ entriesTree = IF occupied
                            THEN <<LocalEntry(yYaml, "file"), LocalEntry(incoming.DstPath, e[2])>>
                            ELSE <<LocalEntry(yYaml, "file")>>
    /\ entriesMap = [ path \in { entriesTree[k].DstPath : k \in 1..Len(entriesTree) } |->
                        CHOOSE k \in 1..Len(entriesTree) : entriesTree[k].DstPath = path ]
    /\ items = <<DependencyRoot, "pkgs">>
    /\ i = 2
    /\ merged = <<>>
    /\ j = 0
    /\ out = Absent
    /\ run = 1
    /\ firstOut = Absent
    /\ NoSignal
    /\ NoFetch
    /\ NoResolve
    /\ NoWalk
    /\ NoRelease
    /\ NoOther
    /\ resolved = NotCalled

\* the callback on the entry: addEntries without strategies for the package,
\* addStrategyEntries with them
MergeEntry ==
    /\ pc = "entry"
    /\ LET pkgName == items[i]
           ps == retrieveStrategies(packages, <<>>, <<>>).ps
           ok == pkgName \in DOMAIN ps
           r  == IF ~ok THEN addEntries(entriesTree, entriesMap, incoming, incoming.DstPath)
                 ELSE addStrategyEntries(ps[pkgName], entriesTree, entriesMap, incoming,
                                         incoming.DstPath)
       IN  /\ entriesTree' = r.tree
           /\ entriesMap' = r.map
           /\ resolved' = [called |-> TRUE, conflict |-> r.conflict, tree |-> entriesTree,
                           map |-> entriesMap]
    /\ pc' = "resolved"
    /\ UNCHANGED <<inputs, cache, packages, items, i, merged, j, out, run, firstOut, declared,
                   incoming, cancelVars, fetchVars, resolveVars, walkVars, releaseVars,
                   otherVars>>

NextStrategy == MergeEntry

SpecStrategy == InitStrategy /\ [][NextStrategy]_vars

\* the destination path of the entry at hand
Slot == incoming.DstPath

\* the slot held an entry when the callback ran
Occupied == Slot \in DOMAIN resolved.map

\* a path of the strategy is a prefix of the entry's path
Prefixed(ms) == ensureStrategyPrefixPath(Slot, ms.paths)

\* the entry is a directory on the way to a path of the strategy
AncestorOf(ms) ==
    /\ incoming.Entry = "dir"
    /\ \E k \in 1..Len(ms.paths) : HasPrefix(ms.paths[k], Slot \o Sep)

\* the path set of the strategy matches the entry: a prefix match, or for a
\* directory being an ancestor of a path of the strategy
Matches(ms) == Prefixed(ms) \/ AncestorOf(ms)

\* the strategy does not pass the entry on: filter-package-files never does,
\* the other two do unless a path of theirs is a prefix of the entry's path
Handles(ms) == ms.s = filterPackageFiles \/ Prefixed(ms)

\* the first strategy in declaration order that meets the test, 0 with none
FirstIndex(Test(_)) ==
    IF \E k \in 1..Len(declared) : Test(declared[k])
    THEN CHOOSE k \in 1..Len(declared) :
             /\ Test(declared[k])
             /\ \A m \in 1..(k - 1) : ~Test(declared[m])
    ELSE 0

\* the entry was added to the list and to the map
Inserted ==
    /\ ~Occupied
    /\ entriesTree = Append(resolved.tree, incoming)
    /\ Slot \in DOMAIN entriesMap
    /\ entriesTree[entriesMap[Slot]] = incoming

\* the entry the map had for the path took the source and metadata of the incoming one
Overwritten ==
    /\ Occupied
    /\ entriesMap = resolved.map
    /\ entriesTree = [resolved.tree EXCEPT ![resolved.map[Slot]] = incoming]

\* the list and the map are as they were
Discarded ==
    /\ entriesTree = resolved.tree
    /\ entriesMap = resolved.map

\* the default rule: the first writer wins
FirstWriterWins == IF Occupied THEN Discarded ELSE Inserted

\* what a strategy does to the entry when it is the one that applies, as the
\* specification describes the three package strategies
AppliedAlone(ms) ==
    CASE ms.s = overwriteLocalFile -> IF Occupied THEN Overwritten ELSE Inserted
      [] ms.s = ignoreExtraPackageFiles -> Discarded
      [] ms.s = filterPackageFiles -> IF ~Occupied /\ Matches(ms) THEN Inserted ELSE Discarded
      [] OTHER -> FALSE

\* the call with the strategy as the only one declared
OnlyStrategy(ms) ==
    addStrategyEntries(<<ms>>, resolved.tree, resolved.map, incoming, Slot)

\* C26 as stated: the entry is handled by the first strategy in declaration
\* order whose path set matches it, and by that strategy only, whatever the
\* strategies declared before it are
C26_FirstMatchingApplies ==
    resolved.called =>
        LET k == FirstIndex(Matches)
        IN  k # 0 => AppliedAlone(declared[k])

\* C26: the entry is handled by the first strategy in declaration order that
\* is filter-package-files or that has a path prefixing the entry's path, and
\* by that strategy only: the list, the map and the returned resolution are
\* those of a call with that strategy alone, and an overwrite-local-file or an
\* ignore-extra-package-files declared earlier without a prefixing path
\* changes nothing
C26_FirstHandlerApplies ==
    resolved.called =>
        LET k == FirstIndex(Handles)
        IN  k # 0 =>
              /\ entriesTree = OnlyStrategy(declared[k]).tree
              /\ entriesMap = OnlyStrategy(declared[k]).map
              /\ resolved.conflict = OnlyStrategy(declared[k]).conflict
              /\ declared[k].s = filterPackageFiles /\ incoming.Entry # "dir" /\ ~Prefixed(declared[k])
                    => Discarded
              /\ declared[k].s = overwriteLocalFile
                    => IF Occupied THEN Overwritten ELSE Inserted
              /\ declared[k].s = ignoreExtraPackageFiles => Discarded

\* filter-package-files on a/ declared before overwrite-local-file on b/, the
\* local file b/x in the slot: the filter decides and the package's b/x is
\* dropped; with the two declared the other way round it overwrites
C26_Witness ==
    /\ resolved.called
    /\ Len(declared) = 2
    /\ Slot = bxPath
    /\ Occupied
    /\ \/ /\ declared[1].s = filterPackageFiles
          /\ ~Prefixed(declared[1])
          /\ declared[2].s = overwriteLocalFile
          /\ Prefixed(declared[2])
          /\ Discarded
       \/ /\ declared[1].s = overwriteLocalFile
          /\ ~Prefixed(declared[1])
          /\ declared[2].s = overwriteLocalFile
          /\ Prefixed(declared[2])
          /\ Overwritten

\* C27 as stated: when none of the declared strategies matches the entry's
\* path the entry is resolved by the default rule, whatever the types of the
\* declared strategies
C27_UnmatchedFallsThrough ==
    resolved.called /\ FirstIndex(Matches) = 0 => FirstWriterWins

\* C27: when no declared strategy handles the entry (none is
\* filter-package-files and none has a path prefixing the entry's path) the
\* entry is resolved by the default rule, first writer wins, and the call
\* reports a conflict resolved to local exactly when the slot was occupied;
\* when a filter-package-files is the first to handle a file none of its
\* paths prefixes, the file is dropped, the slot empty or not
C27_UnhandledFallsThrough ==
    resolved.called =>
        LET k == FirstIndex(Handles)
        IN  /\ k = 0 =>
                /\ FirstWriterWins
                /\ resolved.conflict = IF Occupied THEN resolveToLocal ELSE noConflict
            /\ (/\ k # 0
                /\ declared[k].s = filterPackageFiles
                /\ incoming.Entry # "dir"
                /\ ~Prefixed(declared[k])) => Discarded /\ resolved.conflict = noConflict

\* an overwrite-local-file and an ignore-extra-package-files, neither with a
\* path prefixing the entry's: the entry goes into the empty slot
C27_Witness ==
    /\ resolved.called
    /\ Len(declared) = 2
    /\ declared[1].s = overwriteLocalFile
    /\ declared[2].s = ignoreExtraPackageFiles
    /\ FirstIndex(Handles) = 0
    /\ ~Occupied
    /\ Inserted

\* the strategy that applies is a filter-package-files
FilterApplies ==
    /\ FirstIndex(Handles) # 0
    /\ declared[FirstIndex(Handles)].s = filterPackageFiles

\* C28: when filter-package-files is the strategy that applies, the entry is
\* inserted if and only if its slot is empty and its path matches the paths
\* of the strategy: a prefix match, or for a directory being an ancestor of a
\* declared path
C28_FilterInsertsMatchingOnly ==
    resolved.called /\ FilterApplies =>
        LET ms == declared[FirstIndex(Handles)]
        IN  /\ Inserted <=> (~Occupied /\ Matches(ms))
            /\ ~Inserted => Discarded

-----------------------------------------------------------------------------
\* the entries of the list that come from a package
PackageEntries == { k \in 1..Len(entriesTree) : entriesTree[k].From # "domain repo" }

\* C29: no destination path made from a package has a roles segment or a
\* group_vars segment
C29_NoRolesOrGroupVars ==
    \A k \in PackageEntries :
        \A n \in 1..Len(Split(entriesTree[k].DstPath)) :
            Split(entriesTree[k].DstPath)[n] \notin {rolesName, groupVarsName}

-----------------------------------------------------------------------------
\* The freshness check of a cached git package (gitDownloader.EnsureLatest).

\* the package recursiveDownload is at, and its download path
FetchedPackage == ToPackage(compose[dep], compose[dep].Name)
FetchedPath == DownloadPath(FetchedPackage)

\* the fetch of the freshness check failed
FetchFailed == ferr \notin {"nil", "upToDate"}

\* downloadPackage goes on to a download: the path is removed and the clone begins
Redownloads ==
    /\ fpc' = "chain"
    /\ op'.kind = "clone"
    /\ tries' = <<>>
    /\ FetchedPath \notin DOMAIN disk'
    /\ dep' = dep

\* recursiveDownload is at a git package and calls downloadPackage for it
AtGitPackage ==
    /\ fpc = "loop"
    /\ dep <= Len(compose)
    /\ ~ctxDone
    /\ FetchedPackage.Source.Type = GitType

\* the tag check applies and the repository has no tag of the ref
TagMissing ==
    /\ FetchedPath \in DOMAIN disk
    /\ disk[FetchedPath].kind = "repo"
    /\ disk[FetchedPath].headName # ""
    /\ disk[FetchedPath].headName #
           (IF GetTarget(FetchedPackage) = TargetLatest THEN disk[FetchedPath].headName
            ELSE FetchedPackage.Source.Ref)
    /\ disk[FetchedPath].tag = ""

\* C31: a branch or tag check whose fetch failed, or that finds no tag of the
\* ref, reports the package as not latest without an error: the download path
\* is removed, the package is downloaded again and Download does not return;
\* a download path that is missing or empty does the same
C31_CheckFailureRedownloads ==
    [][ /\ (fpc = "fetched" /\ FetchFailed /\ fpc' # fpc) => (Redownloads /\ ferr' = ferr)
        /\ (/\ AtGitPackage
            /\ \/ FetchedPath \notin DOMAIN disk
               \/ disk[FetchedPath].kind = "empty"
               \/ TagMissing
            /\ fpc' # fpc) => (Redownloads /\ ferr' = ferr) ]_vars

\* the tag of a cached package could not be fetched, the tag it has is at
\* HEAD, and the package is being downloaded again
C31_Witness ==
    /\ fpc = "chain"
    /\ op.kind = "clone"
    /\ trail = <<>>
    /\ tries = <<>>
    /\ checked.called
    /\ checked.atHead
    /\ ~checked.isLatest
    /\ ferr \notin {"", "nil", "upToDate"}

\* C32: every call of a downloader's Download, for a git and for an http
\* package, is handed the directory <packagesDir>/<name>/<target>, the one
\* recursiveDownload looks for the nested manifest in and the builder reads
C32_DownloadIntoPackagePath ==
    \A k \in 1..Len(handed) :
        /\ handed[k].dir = handed[k].packagePath
        /\ PkgPath(handed[k].name, handed[k].packagePath[2]) =
               <<"sourceDir">> \o handed[k].dir

\* downloadPackage returns nil for a package EnsureLatest reported as latest
ReportedLatest ==
    /\ fpc \in {"fetched", "loop"}
    /\ dep <= Len(compose)
    /\ fpc' = "loop"
    /\ dep' = dep + 1

\* downloadPackage returns the error of EnsureLatest
CheckReturnedError ==
    /\ fpc = "loop"
    /\ fpc' = "returned"
    /\ ferr' \in {"head", "check"}

\* C39: a cached package reported as latest is neither removed nor downloaded,
\* and its directory stays as it was; when the check itself returns an error,
\* Download returns that error and the directory stays as it was
C39_LatestLeftAlone ==
    [][ /\ ReportedLatest => (disk' = disk /\ handed' = handed /\ ferr' = ferr)
        /\ CheckReturnedError => (disk' = disk /\ handed' = handed) ]_vars

\* a cached package with its tag at HEAD was reported as latest: the next
\* dependency is at hand, no Download was called and the directory is the
\* repository it was
C39_Witness ==
    /\ fpc = "loop"
    /\ dep = 2
    /\ checked.called
    /\ checked.isLatest
    /\ handed = <<>>
    /\ DownloadPath(ToPackage(compose[1], compose[1].Name)) \in DOMAIN disk
    /\ disk[DownloadPath(ToPackage(compose[1], compose[1].Name))] = Repo("HEAD", "t1", "c1")

-----------------------------------------------------------------------------
\* Packages of one name in the resolved list (getTargetsMap, retrieveStrategies,
\* packagesMap: maps keyed by the package name).

\* the names of the resolved packages
ResolvedNames == { packages[k].Name : k \in 1..Len(packages) }

\* the records of the resolved list with the name
Records(n) == { k \in 1..Len(packages) : packages[k].Name = n }

\* the record declares the strategy for the directory
RecordDeclares(pkg, strategy, dir) ==
    \E m \in 1..Len(pkg.Source.Strategies) :
        /\ pkg.Source.Strategies[m].Name = strategy
        /\ \E q \in 1..Len(pkg.Source.Strategies[m].Paths) :
               pkg.Source.Strategies[m].Paths[q] \in {dir, dir \o Sep}

\* the name is in the list twice, with different refs and strategies
Shadowed(n) ==
    \E k, m \in Records(n) :
        /\ k < m
        /\ packages[k].Source.Ref # packages[m].Source.Ref
        /\ packages[k].Source.Strategies # packages[m].Source.Strategies

\* the package pass is over
MergeOver == pc \in {"materialize", "done"}

\* the directory generated/ of the baseline was left in the entries
GeneratedKept ==
    \E k \in 1..Len(entriesTree) :
        /\ entriesTree[k].From = "domain repo"
        /\ Under(entriesTree[k].DstPath, generatedName)

\* C33: a name that is in the resolved list twice, with different refs and
\* strategies, is merged once, from the target directory of its last record and
\* under the strategies of its last record: the local cfg/a.yaml is overwritten
\* by the package only when its last record declares that, and the baseline
\* below generated/ is removed only when the last record of some name declares
\* remove-extra-local-files for it
C33_LastRecordShadows ==
    MergeOver =>
        \A n \in ResolvedNames :
            Shadowed(n) =>
                /\ Cardinality({ k \in 1..Len(merged) : merged[k] = n }) = 1
                /\ \A k \in 1..Len(entriesTree) :
                      entriesTree[k].From = n =>
                          entriesTree[k].Prefix = PkgPath(n, GetTarget(Effective(n)))
                /\ (cfgAPath \in DOMAIN baseTree /\ cfgAPath \in DOMAIN entriesMap
                        /\ Winner(cfgAPath).From = n)
                      => RecordDeclares(Effective(n), StrategyOverwriteLocal, cfgName)
                /\ (generatedName \in DOMAIN baseTree /\ ~GeneratedKept)
                      => \E m \in ResolvedNames :
                             RecordDeclares(Effective(m), StrategyRemoveExtraLocal,
                                            generatedName)

-----------------------------------------------------------------------------
\* The package loop of Builder.build over graph.TopSort(DependencyRoot).

\* C34: when the package loop is over, every name of the resolved list was
\* merged exactly once, and the synthetic root was not merged
C34_EachNameMergedOnce ==
    MergeOver =>
        /\ \A n \in ResolvedNames : Cardinality({ k \in 1..Len(merged) : merged[k] = n }) = 1
        /\ \A k \in 1..Len(merged) : merged[k] # DependencyRoot

-----------------------------------------------------------------------------
\* Termination of the resolution.

\* the command runs in one goroutine that is never suspended for good: the steps up
\* to the return of Download are taken whenever they can be
SpecResolveLive ==
    /\ SpecResolve
    /\ WF_vars(CreateComposer)
    /\ WF_vars(RunInstall)
    /\ WF_vars(ResolveStep)

\* Download returned, with the package list or with an error, or was never called
ResolutionReturned == pc \in {"build", "merge", "materialize", "done", "failed", "cancelled"}

\* C35: the resolution returns, with a package list or with an error, for every
\* root manifest, those whose packages' manifests name each other included
C35_ResolutionReturns == <>ResolutionReturned

-----------------------------------------------------------------------------
\* The materialization loop and the directories of the entries it writes.

\* the entry the materialization loop writes next
NextWritten == entriesTree[j]

\* the materialization loop is about to write an entry
AboutToWrite == pc = "materialize" /\ j \in 1..Len(entriesTree)

\* C36: the entries are written in the order of the collection; the parent
\* directory of a regular file or symlink about to be written was created by an
\* earlier entry, and no proper ancestor of an entry's destination is won by an
\* entry that is no directory
C36_ParentCreatedFirst ==
    AboutToWrite =>
        /\ NextWritten.Entry # "dir" => ParentExists(out.entries, NextWritten.DstPath)
        /\ \A a \in Ancestors(NextWritten.DstPath) :
              a \in DOMAIN entriesMap => Winner(a).Entry = "dir"

-----------------------------------------------------------------------------
(***************************************************************************)
(* The materialization loop with the mode bits: a mode is the set of its   *)
(* permission bits.                                                        *)
(***************************************************************************)
M700 == {"ur", "uw", "ux"}
M750 == {"ur", "uw", "ux", "gr", "gx"}
M755 == {"ur", "uw", "ux", "gr", "gx", "or", "ox"}
M600 == {"ur", "uw"}
M644 == {"ur", "uw", "gr", "or"}
M666 == {"ur", "uw", "gr", "gw", "or", "ow"}

\* umask 022 and umask 077
Umasks == { {"gw", "ow"}, {"gr", "gw", "gx", "or", "ow", "ox"} }

\* dirPermissions = 0755
dirPermissions == M755

DirModes == { M700, M750, M755 }
FileModes == { M600, M644, M755 }

srcPlatformDir == JoinSegs(<<srcName, platformName>>)
srcPlatformFile == JoinSegs(<<srcName, platformName, yYaml>>)

\* an entry of the collection with the mode of its source
ModeEntry(path, kind, mode) == [DstPath |-> path, Entry |-> kind, Mode |-> mode]

\* os.MkdirAll(dir, perm) behind the exists() check of createDir: nothing when the path
\* exists, else the directory and its missing parents, each with perm less the umask
createDir(o, dir, perm, mask) ==
    IF dir \in DOMAIN o THEN o
    ELSE [ p \in DOMAIN o \cup (Ancestors(dir) \ {Dot}) \cup {dir} |->
             IF p \in DOMAIN o THEN o[p] ELSE [kind |-> "dir", mode |-> perm \ mask] ]

\* os.Create of fcopy: a new file gets 0666 less the umask, an existing file is
\* truncated and keeps its mode
fcopy(o, dst, mask) ==
    IF dst \in DOMAIN o THEN o
    ELSE MapPut(o, dst, [kind |-> "file", mode |-> M666 \ mask])

\* os.Chmod
Chmod(o, path, mode) == [o EXCEPT ![path].mode = mode]

\* the permissions the loop hands to os.Chmod: dirPermissions, replaced by the mode of
\* the source only in the branch of the regular files
Permissions(entry) == IF entry.Entry = "dir" THEN dirPermissions ELSE entry.Mode

\* one iteration of the materialization loop: createDir or fcopy, then os.Chmod
MaterializeMode ==
    /\ modeJ \in 1..Len(modeTree)
    /\ LET entry == modeTree[modeJ]
           made  == IF entry.Entry = "dir"
                    THEN createDir(modeOut, entry.DstPath, entry.Mode, umask)
                    ELSE fcopy(modeOut, entry.DstPath, umask)
       IN  modeOut' = Chmod(made, entry.DstPath, Permissions(entry))
    /\ modeJ' = modeJ + 1
    /\ UNCHANGED <<installVars, cancelVars, fetchVars, resolveVars, walkVars, strategyVars,
                   releaseVars, handed, modeTree, umask, cleanVars, formVars>>

\* the collection of a baseline with a directory and a file in it and of a package with
\* a layer below src/, every mode of the sources; the merged directory was made by
\* EnsureDirExists with dirPermissions
InitMode ==
    /\ baseTree = BaseTreeSmall
    /\ compose = <<>>
    /\ skipNotVersioned = FALSE
    /\ head = NoRepo
    /\ pc = "materialize"
    /\ cache = <<>>
    /\ packages = <<>>
    /\ entriesTree = <<>>
    /\ entriesMap = <<>>
    /\ items = <<>>
    /\ i = 0
    /\ merged = <<>>
    /\ j = 0
    /\ out = Absent
    /\ run = 1
    /\ firstOut = Absent
    /\ NoSignal
    /\ NoFetch
    /\ NoResolve
    /\ NoWalk
    /\ NoStrategy
    /\ NoRelease
    /\ handed = <<>>
    /\ NoPrevious
    /\ NoForms
    /\ umask \in Umasks
    /\ \E root, d1, d2 \in DirModes, f1, f2 \in FileModes :
           modeTree = << ModeEntry(Dot, "dir", root),
                         ModeEntry(cfgName, "dir", d1),
                         ModeEntry(cfgAPath, "file", f1),
                         ModeEntry(srcPlatformDir, "dir", d2),
                         ModeEntry(srcPlatformFile, "file", f2) >>
    /\ modeOut = [ p \in {Dot} |-> [kind |-> "dir", mode |-> dirPermissions \ umask] ]
    /\ modeJ = 1

NextMode == MaterializeMode

SpecMode == InitMode /\ [][NextMode]_vars

\* the loop has written every entry
ModesWritten == modeJ > Len(modeTree)

\* C37: when the loop is over, every directory and every regular file of the
\* collection has the mode bits of its source
C37_ModeBitsPreserved ==
    ModesWritten =>
        \A k \in 1..Len(modeTree) : modeOut[modeTree[k].DstPath].mode = modeTree[k].Mode

-----------------------------------------------------------------------------
(***************************************************************************)
(* A run in a directory where an earlier run left a merged directory and   *)
(* a packages directory.                                                   *)
(***************************************************************************)
stalePath == <<"s", "t", "a", "l", "e">>

\* the merged directory of an earlier run: a file no package and no baseline holds now
StaleOut ==
    [exists |-> TRUE,
     entries |-> [ p \in {stalePath} |->
                     [kind |-> "file", Prefix |-> platformDir, SrcPath |-> stalePath] ]]

\* the packages directory of an earlier run: a package the manifest names no more, and
\* an old copy of pkgb
StaleCache ==
    [ k \in { <<"pkgz", TargetLatest>>, <<"pkgb", TargetLatest>> } |-> Remote["uc"] ]

PreviousRuns == [out : {Absent, StaleOut}, cache : {<<>>, StaleCache}]

InitClean ==
    /\ baseTree \in BaseTrees
    /\ compose \in { l \in Manifests : Len(l) <= 1 }
    /\ rootYaml = Manifest(compose)
    /\ skipNotVersioned = FALSE
    /\ head = NoRepo
    /\ pc = "create"
    /\ clean \in BOOLEAN
    /\ previous \in PreviousRuns
    /\ cache = previous.cache
    /\ out = previous.out
    /\ packages = <<>>
    /\ entriesTree = <<>>
    /\ entriesMap = <<>>
    /\ items = <<>>
    /\ i = 0
    /\ merged = <<>>
    /\ j = 0
    /\ run = 1
    /\ firstOut = Absent
    /\ NoSignal
    /\ NoFetch
    /\ rerr = "nil"
    /\ attempts = <<>>
    /\ lookups = <<>>
    /\ noURL = NotMet
    /\ NoWalk
    /\ NoStrategy
    /\ NoRelease
    /\ handed = <<>>
    /\ NoMode
    /\ NoForms

NextClean ==
    \/ CreateComposer
    \/ RunInstall
    \/ ResolveStep
    \/ BuildBaseline
    \/ SortPackages
    \/ BuildPackage
    \/ BuildEntry

SpecClean == InitClean /\ [][NextClean]_vars

\* prepareInstall has returned and Download has not yet begun with a dependency
AfterPrepare ==
    /\ pc = "resolve"
    /\ attempts = <<>>
    /\ rerr = "nil"
    /\ frames = <<Frame(compose, NilParent)>>

\* the run is past prepareInstall
PastPrepare == pc \in {"resolve", "build", "sort", "merge", "materialize", "done", "failed"}

\* C38: when prepareInstall has returned, before any dependency is fetched, the
\* merged directory is gone and the packages directory is empty if clean is set
\* and as the earlier run left it if not; nothing the earlier run left in the
\* merged directory is there at any later point of the run
C38_StartOfRunCleanup ==
    /\ AfterPrepare =>
          /\ out = Absent
          /\ cache = IF clean THEN <<>> ELSE previous.cache
    /\ PastPrepare =>
          \A p \in DOMAIN previous.out.entries : p \notin DOMAIN out.entries

\* a run without the clean option over what an earlier run left: the merged
\* directory was removed, the packages directory is as it was
C38_Witness ==
    /\ AfterPrepare
    /\ ~clean
    /\ previous.out = StaleOut
    /\ previous.cache = StaleCache
    /\ out = Absent
    /\ cache = StaleCache

-----------------------------------------------------------------------------
(***************************************************************************)
(* The package forms (FormsAction) called with every value given, so that  *)
(* no form is shown.  A dependency is its name and its URL, both strings   *)
(* as sequences of characters.                                             *)
(***************************************************************************)
FormDep(name, url) == [Name |-> name, URL |-> url]

\* strings.TrimSpace: the string without its leading and trailing spaces
RECURSIVE TrimSpace(_)
TrimSpace(str) ==
    IF Len(str) = 0 THEN str
    ELSE IF str[1] = " " THEN TrimSpace(Tail(str))
    ELSE IF str[Len(str)] = " " THEN TrimSpace(SubSeq(str, 1, Len(str) - 1))
    ELSE str

\* sanitizeDependency
sanitizeDependency(dependency) ==
    [Name |-> TrimSpace(dependency.Name), URL |-> TrimSpace(dependency.URL)]

\* the orders sort.Slice may leave the dependencies in: by name, dependencies of one
\* name in any order
sortPackages(deps) ==
    { l \in [1..Len(deps) -> { deps[k] : k \in 1..Len(deps) }] :
        /\ \A d \in { deps[k] : k \in 1..Len(deps) } :
              Cardinality({ k \in 1..Len(deps) : l[k] = d })
                  = Cardinality({ k \in 1..Len(deps) : deps[k] = d })
        /\ \A k \in 1..(Len(deps) - 1) : ~NameLess(l[k + 1].Name, l[k].Name) }

\* the check of AddPackage on the dependencies of the file, in their order
RECURSIVE addCheck(_, _)
addCheck(deps, newDependency) ==
    IF Len(deps) = 0 THEN "nil"
    ELSE IF deps[1].Name = newDependency.Name THEN "same name"
    ELSE IF deps[1].URL = newDependency.URL THEN "same URL"
    ELSE addCheck(Tail(deps), newDependency)

\* the longest manifest file
MaxManifest == 3

\* AddPackage with name and URL given
AddPackage(newDependency) ==
    /\ Len(composeYaml) < MaxManifest
    /\ newDependency.Name # <<>>
    /\ newDependency.URL # <<>>
    /\ formsErr' = addCheck(composeYaml, newDependency)
    /\ IF formsErr' = "nil"
       THEN composeYaml' \in sortPackages(Append(composeYaml, sanitizeDependency(newDependency)))
       ELSE composeYaml' = composeYaml
    /\ UNCHANGED <<installVars, cancelVars, fetchVars, resolveVars, walkVars, strategyVars,
                   releaseVars, handed, modeVars, cleanVars>>

\* the loop of UpdatePackage: the index of the dependency to update (0 for none), or the
\* error when another dependency has the URL
RECURSIVE updateLoop(_, _, _, _)
updateLoop(deps, dependency, k, toUpdate) ==
    IF k > Len(deps) THEN [err |-> "nil", toUpdate |-> toUpdate]
    ELSE IF deps[k].Name = dependency.Name THEN updateLoop(deps, dependency, k + 1, k)
    ELSE IF deps[k].URL = dependency.URL THEN [err |-> "URL present", toUpdate |-> toUpdate]
    ELSE updateLoop(deps, dependency, k + 1, toUpdate)

\* mergo.Merge with override: the fields of the source that are not empty replace those
\* of the destination
Merge(dst, src) ==
    [Name |-> IF src.Name # <<>> THEN src.Name ELSE dst.Name,
     URL  |-> IF src.URL # <<>> THEN src.URL ELSE dst.URL]

\* UpdatePackage
UpdatePackage(dependency) ==
    /\ LET r == updateLoop(composeYaml, dependency, 1, 0)
       IN  /\ formsErr' = IF r.err # "nil" THEN r.err
                          ELSE IF r.toUpdate = 0 THEN "no package" ELSE "nil"
           /\ IF formsErr' = "nil"
              THEN composeYaml' \in
                       sortPackages([composeYaml EXCEPT ![r.toUpdate] =
                                        sanitizeDependency(Merge(@, dependency))])
              ELSE composeYaml' = composeYaml
    /\ UNCHANGED <<installVars, cancelVars, fetchVars, resolveVars, walkVars, strategyVars,
                   releaseVars, handed, modeVars, cleanVars>>

\* the dependencies DeletePackages keeps
RECURSIVE keepOthers(_, _)
keepOthers(deps, names) ==
    IF Len(deps) = 0 THEN <<>>
    ELSE IF deps[1].Name \in names THEN keepOthers(Tail(deps), names)
    ELSE <<deps[1]>> \o keepOthers(Tail(deps), names)

\* DeletePackages with the names given: the file is written when a dependency went
DeletePackages(names) ==
    /\ names # {}
    /\ LET dependencies == keepOthers(composeYaml, names)
       IN  IF Len(dependencies) # Len(composeYaml)
           THEN composeYaml' \in sortPackages(dependencies)
           ELSE composeYaml' = composeYaml
    /\ formsErr' = "nil"
    /\ UNCHANGED <<installVars, cancelVars, fetchVars, resolveVars, walkVars, strategyVars,
                   releaseVars, handed, modeVars, cleanVars>>

\* the names and URLs submitted: with and without spaces around them
FormNames == { <<"a">>, <<"b">>, <<" ", "a">>, <<"a", " ">> }
FormURLs == { <<"u">>, <<"v">>, <<"w">> }

\* the manifests the forms start from: the names pairwise distinct
StartManifests ==
    { <<>>, <<FormDep(<<"a">>, <<"u">>)>>,
      <<FormDep(<<"a">>, <<"u">>), FormDep(<<"b">>, <<"v">>)>> }

InitForms ==
    /\ baseTree = BaseTreeSmall
    /\ compose = <<>>
    /\ skipNotVersioned = FALSE
    /\ head = NoRepo
    /\ pc = "forms"
    /\ cache = <<>>
    /\ packages = <<>>
    /\ entriesTree = <<>>
    /\ entriesMap = <<>>
    /\ items = <<>>
    /\ i = 0
    /\ merged = <<>>
    /\ j = 0
    /\ out = Absent
    /\ run = 1
    /\ firstOut = Absent
    /\ NoSignal
    /\ NoFetch
    /\ NoResolve
    /\ NoWalk
    /\ NoStrategy
    /\ NoRelease
    /\ handed = <<>>
    /\ NoMode
    /\ NoPrevious
    /\ composeYaml \in StartManifests
    /\ formsErr = "nil"

FormAdd == \E name \in FormNames, url \in FormURLs : AddPackage(FormDep(name, url))

FormUpdate ==
    \E name \in FormNames, url \in FormURLs \cup {<<>>} : UpdatePackage(FormDep(name, url))

FormDelete == \E names \in SUBSET FormNames : DeletePackages(names)

NextForms ==
    \/ FormAdd
    \/ FormUpdate
    \/ FormDelete

SpecForms == InitForms /\ [][NextForms]_vars

\* C40: the names of the dependencies in the manifest file are pairwise
\* distinct after every sequence of AddPackage, UpdatePackage and
\* DeletePackages, names given with spaces around them included
C40_NamesStayDistinct ==
    \A a, b \in 1..Len(composeYaml) : composeYaml[a].Name = composeYaml[b].Name => a = b

=============================================================================
